---- MODULE Spec2Model ----
(***************************************************************************)
(* The asynchronous media pipeline of autosub: the chat layer creates a    *)
(* Task and enqueues its identifier (bot/services/video_service.py), a     *)
(* pool of RQ workers runs process_video_task (worker/tasks.py) on it,     *)
(* which threads the artifact paths through download, transcribe,          *)
(* translate, voiceover and composite, persists the Task status with       *)
(* update_task_status_sync (db/crud.py) and reports through                *)
(* worker/notifier.py.                                                     *)
(*                                                                         *)
(* A worker's position in process_video_task is pc[w]; one step of the     *)
(* model is one blocking call of the code together with the bookkeeping    *)
(* that follows it up to the next blocking call.  What the external tools  *)
(* (yt-dlp, Whisper, Argos, Coqui, ffmpeg, Telegram, Redis) answer is      *)
(* chosen with \E from the outcomes the code distinguishes.                *)
(***************************************************************************)
EXTENDS Integers, Sequences, FiniteSets, TLC

\* ------------------------------------------------------------------ bounds
MaxDeliveries == 2     \* times the queue hands one Task identifier to a worker
MaxSegments == 2       \* caption segments with text in one caption file

\* Tasks share nothing (each has its own row, Redis keys and scratch
\* directory), so the model follows one Task identifier from its creation
\* through every delivery of its job; two workers compete for the job.
TaskIds == {1}
Workers == {"w1", "w2"}
None == "None"

\* ------------------------------------------------------- config/constants.py
CREATED == "created"
PENDING == "pending"
PROCESSING == "processing"
COMPLETED == "completed"
FAILED == "failed"
CANCELLED == "cancelled"
TaskStatus == {CREATED, PENDING, PROCESSING, COMPLETED, FAILED, CANCELLED}

\* ------------------------------------------------------------ the Task row
\* What enqueue_video_task may be asked for.  source_language is always
\* "auto" at creation; target_language is "auto" unless the user picked one.
InputTypes == {"file", "youtube"}
TargetLanguages == {"auto", "es"}
DetectedLanguages == {"en", "ja"}

\* The worker reads target_language only where task.translate is true, so
\* the requests without translation are modelled with the default "auto".
TaskData ==
    {d \in [input_type : InputTypes, generate_subtitles : BOOLEAN, translate : BOOLEAN,
            voiceover : BOOLEAN, target_language : TargetLanguages] :
        d.translate \/ d.target_language = "auto"}

\* Task(**task_data) with the column defaults of db/models.py.
NewTask(data) ==
    [status |-> CREATED,
     input_type |-> data.input_type,
     input_file_path |-> None,
     source_language |-> "auto",
     target_language |-> data.target_language,
     generate_subtitles |-> data.generate_subtitles,
     translate |-> data.translate,
     voiceover |-> data.voiceover,
     output_file_path |-> None,
     subtitles_file_path |-> None,
     error_message |-> None]

\* A row that was never inserted (no Task with that id).
NoRow == NewTask([input_type |-> "file", generate_subtitles |-> FALSE,
                  translate |-> FALSE, voiceover |-> FALSE, target_language |-> "auto"])

\* The extra appearance options kept in Redis under task:<id>:options.
DefaultOptions == [style |-> "sub36o1", position |-> "bottom", voice |-> "female"]
CustomOptions == [style |-> "modern_bold", position |-> "top", voice |-> "male"]
OptionBundles == {CustomOptions}
NoOptions == [style |-> None, position |-> None, voice |-> None]   \* no such key

\* ------------------------------------------------------------- db/crud.py
\* update_data = {"status": status, **kwargs}; UPDATE ... WHERE id = task_id.
\* (started_at / completed_at are timestamps and are not modelled.)
update_task_status_sync_lost(row, status, kwargs) ==
    [f \in DOMAIN row |-> IF f \in DOMAIN kwargs THEN kwargs[f] ELSE row[f]]

update_task_status_sync_nokw(row, status, kwargs) ==
    [row EXCEPT !.status = status]

update_task_status_sync(row, status, kwargs) ==
    [f \in DOMAIN row |->
        IF f = "status" THEN status
        ELSE IF f \in DOMAIN kwargs THEN kwargs[f]
        ELSE row[f]]

NoKwargs == [x \in {} |-> None]

\* ------------------------------------------- worker/processors/downloader.py
\* download_video dispatches on task.input_type; each branch either returns
\* the path of the file it wrote or raises.  What the remote side gives:
\* a file with content ("ok"), a file of zero bytes ("empty"), no file on
\* disk after a transfer reported as done ("missing"), or an error.
DownloadAnswers == {"ok", "error", "missing", "empty"}

\* What the lower-cased text of a yt-dlp error contains: "restricted" for
\* the wording of restricted content ('inappropriate', 'certain audiences',
\* the word 'age'); "age" for the letters 'age' inside another word, such
\* as 'webpage' or 'message'; "timeout" for 'timeout' or
\* 'timed out'; "blocked" for 'blocked', 'unable to download' or 'unable to
\* extract'; "instagram" for 'instagram'; "format" for 'format' or 'codec'.
DownloadMarkers == {"restricted", "age", "timeout", "blocked", "instagram", "format"}

\* primary: Telegram's or yt-dlp's answer; at: whether a yt-dlp error comes
\* from extract_info or from download; markers: what its text contains;
\* available: INSTALOADER_AVAILABLE; fallback: instaloader's answers, call
\* by call; second: yt-dlp's answer when run again with format 'best'.
DownloadEnvs ==
    [primary : DownloadAnswers, at : {"extract", "download"},
     markers : SUBSET DownloadMarkers, available : BOOLEAN,
     fallback : {"ok", "error", "error_then_ok"}, second : {"ok", "empty", "error"}]

\* The answers the pipeline is run against: errors without any marker.
DownloadEnv ==
    {env \in DownloadEnvs :
        /\ env.markers = {} /\ env.at = "extract" /\ env.available
        /\ env.fallback \in {"ok", "error"} /\ env.second = "ok"}

DownloadErrorMessage(input_type) ==
    IF input_type = "file" THEN "Telegram server says - Bad Request"
    ELSE "Failed to download video: ERROR"

\* tries: runs of yt-dlp (or of Telegram's download); fallbacks: calls of
\* download_from_instagram_instaloader.
DownloadReturn(exists, empty) ==
    [raised |-> FALSE, msg |-> None, path |-> "input.mp4", exists |-> exists, empty |-> empty,
     tries |-> 1, fallbacks |-> 0]

DownloadRaise(msg) ==
    [raised |-> TRUE, msg |-> msg, path |-> None, exists |-> FALSE, empty |-> FALSE,
     tries |-> 1, fallbacks |-> 0]

\* bot.download_file writes output_path, which is returned as it is; any
\* exception is logged and raised again.
download_from_telegram(env) ==
    IF env.primary = "error" THEN DownloadRaise(DownloadErrorMessage("file"))
    ELSE DownloadReturn(env.primary # "missing", env.primary = "empty")

\* The answer of the nth call of the instaloader download.
FallbackAnswer(env, nth) ==
    IF env.fallback = "error_then_ok" THEN (IF nth = 1 THEN "error" ELSE "ok")
    ELSE env.fallback

\* Every attempt checks "not output_path.exists() or st_size == 0"; after
\* the last attempt the error is raised.
download_from_instagram_instaloader(env, nth) ==
    IF ~env.available
    THEN [DownloadRaise("instaloader not available, cannot use fallback") EXCEPT !.fallbacks = nth]
    ELSE IF FallbackAnswer(env, nth) = "ok"
    THEN [DownloadReturn(TRUE, FALSE) EXCEPT !.fallbacks = nth]
    ELSE [DownloadRaise("Failed to download via instaloader") EXCEPT !.fallbacks = nth]

\* The messages download_from_url raises. The three about restricted
\* content are Russian texts in the source; two of them start with the
\* word Instagram, the third with no Latin letter.
MsgInstagramRestrictedProxy ==
    "Instagram restricted access to this video (age restrictions). Check the link, use a cookies file or another proxy."

MsgInstagramRestricted ==
    "Instagram restricted access to this video (age restrictions). Check the link or use a cookies file."

MsgRestricted ==
    "(ru) The video is not available for anonymous viewing (age or regional restrictions). Please send another link."

MsgTimeout(source) ==
    "Timeout while accessing " \o (IF source = None THEN "platform" ELSE source)
        \o ". Please try again later."

MsgDownloadTimeout(source) ==
    "Download timeout. " \o (IF source = None THEN "Platform" ELSE source)
        \o " may be slow or unavailable. Please try again later."

MsgInstagramNotAccessible ==
    "Instagram video is not accessible. It may be private or require authentication. Please check the URL or try using a proxy."

MsgNotAccessible == "Video is not accessible. Please check the URL."

MsgFailedAccess == "Failed to access video: ERROR"

\* An exception on its way to "except Exception as e" of download_from_url:
\* its message, whether the lower-cased message contains one of the words
\* that send an Instagram URL to instaloader, and whether it contains
\* 'inappropriate' or 'certain audiences'.
Exc(msg, keyword, restricted, fallbacks) ==
    [msg |-> msg, keyword |-> keyword, restricted |-> restricted, fallbacks |-> fallbacks]

\* str(e).startswith(('Failed', 'Timeout', 'Instagram', 'Video'))
StartsFriendly(msg) ==
    msg \in {MsgInstagramRestrictedProxy, MsgInstagramRestricted, MsgInstagramNotAccessible,
             MsgNotAccessible, MsgFailedAccess}
    \/ msg \in {MsgTimeout(source) : source \in {None, "youtube", "tiktok", "instagram"}}

\* The handler without the test for the source.
HandleException_any_source(source, env, exc) ==
    IF env.available /\ exc.keyword
    THEN LET again == download_from_instagram_instaloader(env, exc.fallbacks + 1)
         IN  IF ~again.raised THEN again
             ELSE [DownloadRaise(IF exc.restricted THEN MsgInstagramRestrictedProxy
                                 ELSE "Failed to download video: " \o exc.msg)
                      EXCEPT !.fallbacks = exc.fallbacks + 1]
    ELSE [DownloadRaise(IF StartsFriendly(exc.msg) THEN exc.msg
                        ELSE "Failed to download video: " \o exc.msg)
             EXCEPT !.fallbacks = exc.fallbacks]

\* "except Exception as e" of download_from_url (lines 461-485).
HandleException(source, env, exc) ==
    IF source = "instagram" /\ env.available /\ exc.keyword
    THEN LET again == download_from_instagram_instaloader(env, exc.fallbacks + 1)
         IN  IF ~again.raised THEN again
             ELSE [DownloadRaise(IF exc.restricted THEN MsgInstagramRestrictedProxy
                                 ELSE "Failed to download video: " \o exc.msg)
                      EXCEPT !.fallbacks = exc.fallbacks + 1]
    ELSE [DownloadRaise(IF StartsFriendly(exc.msg) THEN exc.msg
                        ELSE "Failed to download video: " \o exc.msg)
             EXCEPT !.fallbacks = exc.fallbacks]

\* The handler around extract_info (lines 311-367): what it returns, or the
\* exception it raises into HandleException.
ExtractError(source, env) ==
    LET first == download_from_instagram_instaloader(env, 1)
        Try(msg) == IF env.available
                    THEN (IF ~first.raised THEN first
                          ELSE HandleException(source, env, Exc(msg, TRUE, FALSE, 1)))
                    ELSE HandleException(source, env, Exc(msg, TRUE, FALSE, 0))
    IN  IF "restricted" \in env.markers \/ "age" \in env.markers
        THEN (IF source = "instagram"
              THEN (IF env.available
                    THEN (IF ~first.raised THEN first
                          ELSE HandleException(source, env,
                                   Exc(MsgInstagramRestrictedProxy, TRUE, FALSE, 1)))
                    ELSE HandleException(source, env,
                             Exc(MsgInstagramRestricted, TRUE, FALSE, 0)))
              ELSE HandleException(source, env, Exc(MsgRestricted, FALSE, FALSE, 0)))
        ELSE IF "timeout" \in env.markers
        THEN HandleException(source, env,
                 Exc(MsgTimeout(source), source = "instagram", FALSE, 0))
        ELSE IF "blocked" \in env.markers
        THEN (IF source = "instagram" THEN Try(MsgInstagramNotAccessible)
              ELSE HandleException(source, env, Exc(MsgNotAccessible, FALSE, FALSE, 0)))
        ELSE IF source = "instagram" /\ env.available
        THEN (IF ~first.raised THEN first
              ELSE HandleException(source, env,
                       Exc(MsgFailedAccess, "instagram" \in env.markers, FALSE, 1)))
        ELSE HandleException(source, env,
                 Exc(MsgFailedAccess, "instagram" \in env.markers, FALSE, 0))

\* "except YTDLPError as e" (lines 426-459): an error of ydl.download.
DownloadError(source, env) ==
    LET first == download_from_instagram_instaloader(env, 1)
    IN  IF "format" \in env.markers
        THEN (IF env.second = "ok" THEN [DownloadReturn(TRUE, FALSE) EXCEPT !.tries = 2]
              ELSE IF env.second = "empty"
              THEN [DownloadRaise("Failed to download video after fallback: Downloaded file is empty: input.mp4")
                       EXCEPT !.tries = 2]
              ELSE [DownloadRaise("Failed to download video after fallback: ERROR")
                       EXCEPT !.tries = 2])
        ELSE IF "timeout" \in env.markers
        THEN DownloadRaise(MsgDownloadTimeout(source))
        ELSE IF "restricted" \in env.markers \/ "age" \in env.markers
        THEN (IF source = "instagram" /\ env.available
              THEN (IF ~first.raised THEN first
                    ELSE [DownloadRaise(MsgInstagramRestrictedProxy) EXCEPT !.fallbacks = 1])
              ELSE DownloadRaise(MsgRestricted))
        ELSE IF "instagram" \in env.markers /\ "blocked" \in env.markers
        THEN (IF source = "instagram" /\ env.available
              THEN (IF ~first.raised THEN first
                    ELSE [DownloadRaise("Instagram video is not accessible. yt-dlp and instaloader both failed. Error: Failed to download via instaloader")
                             EXCEPT !.fallbacks = 1])
              ELSE DownloadRaise("Instagram video is not accessible. It may be private or require authentication."))
        ELSE DownloadRaise(DownloadErrorMessage(source))

\* yt-dlp: extract_info, download, then the downloaded file must exist and
\* have a size other than 0; every error ends in an exception, for
\* Instagram after the instaloader fallback where the error text sends it
\* there.
download_from_url(source, env) ==
    IF env.primary = "ok" THEN DownloadReturn(TRUE, FALSE)
    ELSE IF env.primary = "missing"
    THEN HandleException(source, env,
             Exc("Downloaded file not found: input.mp4", FALSE, FALSE, 0))
    ELSE IF env.primary = "empty"
    THEN HandleException(source, env,
             Exc("Downloaded file is empty: input.mp4", FALSE, FALSE, 0))
    ELSE IF env.at = "extract" THEN ExtractError(source, env)
    ELSE DownloadError(source, env)

download_video(input_type, env) ==
    IF input_type = "file" THEN download_from_telegram(env)
    ELSE download_from_url(input_type, env)

\* tasks.py: if not input_video_path or not os.path.exists(input_video_path)
DownloadAccepted(r) == ~r.raised /\ r.path # None /\ r.exists

\* ------------------------------------------ worker/processors/transcriber.py
\* transcribe_audio(video_path, output_dir, language): Whisper detects the
\* language when asked for "auto" and reports the requested one otherwise;
\* any failure is logged and re-raised.
TranscribeEnv == [ok : BOOLEAN, language : DetectedLanguages]

transcribe_audio(language, env) ==
    IF ~env.ok
    THEN [raised |-> TRUE, msg |-> "transcription failed", path |-> None, detected_language |-> None]
    ELSE [raised |-> FALSE, msg |-> None, path |-> "subtitles.srt",
          detected_language |-> IF language = "auto" THEN env.language ELSE language]

\* ------------------------------------------- worker/processors/translator.py
PIVOT_LANGUAGE == "en"
LANGUAGE_ALIASES == {"en", "ru", "es", "fr", "de", "it"}   \* an identity map
MARIAN_MODELS == {}                                        \* no pair registered

\* str.lower() and [:2] on the tags of the model.
Lower(tag) ==
    CASE tag = "EN" -> "en"
      [] tag = "ES-mx" -> "es-mx"
      [] OTHER -> tag

First2(tag) ==
    CASE tag = "auto" -> "au"
      [] tag = "es-mx" -> "es"
      [] OTHER -> tag

_normalize_lang_code(lang) ==
    IF lang \in {None, ""} THEN "en"
    ELSE IF Lower(lang) \in LANGUAGE_ALIASES THEN Lower(lang)
    ELSE IF First2(Lower(lang)) \in LANGUAGE_ALIASES THEN First2(Lower(lang))
    ELSE "en"

\* What the bridge engine answers for one language pair: a package is
\* installed or installable and translates ("ok"), no package exists
\* ("nopkg"), or the package is there and translating a text raises ("fail").
PairAnswers == {"ok", "nopkg", "fail"}

_translate_with_marian(source_language, target_language, answer) ==
    IF <<source_language, target_language>> \notin MARIAN_MODELS THEN None
    ELSE IF answer = "ok" THEN "translated" ELSE None

ensure_language_package(from_code, to_code, answer) ==
    IF <<from_code, to_code>> \in MARIAN_MODELS THEN TRUE
    ELSE answer # "nopkg"

\* Returns None when the pair is unavailable, else the translated batch.
_translate_batch(source_language, target_language, answer) ==
    IF source_language = target_language THEN "unchanged"
    ELSE IF _translate_with_marian(source_language, target_language, answer) # None
         THEN "translated"
    ELSE IF ~ensure_language_package(source_language, target_language, answer) THEN None
    ELSE IF answer = "fail" THEN None
    ELSE "translated"

\* The backends _translate_batch turns to for one pair, in the order of its
\* code: the Marian lookup, then (when Marian gave nothing) the Argos package.
BackendsTried_argos_first(source_language, target_language, answer) ==
    IF source_language = target_language THEN <<>>
    ELSE <<[backend |-> "argos", from |-> source_language, to |-> target_language],
           [backend |-> "marian", from |-> source_language, to |-> target_language]>>

BackendsTried(source_language, target_language, answer) ==
    IF source_language = target_language THEN <<>>
    ELSE <<[backend |-> "marian", from |-> source_language, to |-> target_language]>> \o
         (IF _translate_with_marian(source_language, target_language, answer) # None
          THEN <<>>
          ELSE <<[backend |-> "argos", from |-> source_language, to |-> target_language]>>)

TranslatedFile(target_language) ==
    CASE target_language = "en" -> "subtitles_en.srt"
      [] target_language = "ru" -> "subtitles_ru.srt"
      [] target_language = "es" -> "subtitles_es.srt"
      [] target_language = "fr" -> "subtitles_fr.srt"
      [] target_language = "de" -> "subtitles_de.srt"
      [] OTHER -> "subtitles_it.srt"

TranslatedFiles == {TranslatedFile(l) : l \in LANGUAGE_ALIASES}

TranslateEnv ==
    [readable : BOOLEAN, entries : BOOLEAN, detect : DetectedLanguages,
     direct : PairAnswers, to_pivot : PairAnswers, from_pivot : PairAnswers,
     write : {"ok", "open_error", "write_error"}]

\* The body of translate_subtitles inside its try block: what it returns, or
\* that an exception left it.
translate_subtitles_try(srt_path, target_language, source_language, env) ==
    LET src == IF source_language \in {None, "auto"}
               THEN _normalize_lang_code(env.detect) ELSE source_language
        tgt == _normalize_lang_code(target_language)
        direct == _translate_batch(src, tgt, env.direct)
        pivot_texts == _translate_batch(src, PIVOT_LANGUAGE, env.to_pivot)
        translated_texts ==
            IF direct = None /\ src # PIVOT_LANGUAGE /\ tgt # PIVOT_LANGUAGE
            THEN IF pivot_texts # None
                 THEN _translate_batch(PIVOT_LANGUAGE, tgt, env.from_pivot)
                 ELSE None
            ELSE direct
        attempts ==
            BackendsTried(src, tgt, env.direct) \o
            (IF direct = None /\ src # PIVOT_LANGUAGE /\ tgt # PIVOT_LANGUAGE
             THEN BackendsTried(src, PIVOT_LANGUAGE, env.to_pivot) \o
                  (IF pivot_texts # None
                   THEN BackendsTried(PIVOT_LANGUAGE, tgt, env.from_pivot) ELSE <<>>)
             ELSE <<>>)
        ret(path, why, written, tried) ==
            [raised |-> FALSE, path |-> path, why |-> why, written |-> written,
             attempts |-> tried]
    IN  IF ~env.readable
        THEN [raised |-> TRUE, path |-> None, why |-> "error", written |-> {},
              attempts |-> <<>>]
        ELSE IF ~env.entries THEN ret(srt_path, "empty", {}, <<>>)
        ELSE IF src = tgt THEN ret(srt_path, "same", {}, <<>>)
        ELSE IF translated_texts = None THEN ret(srt_path, "unavailable", {}, attempts)
        ELSE IF env.write # "ok"
        THEN [raised |-> TRUE, path |-> None, why |-> "error",
              written |-> IF env.write = "write_error" THEN {TranslatedFile(tgt)} ELSE {},
              attempts |-> attempts]
        ELSE ret(TranslatedFile(tgt), "translated", {TranslatedFile(tgt)}, attempts)

\* translate_subtitles with its except clause left out.
translate_subtitles_uncaught(srt_path, target_language, source_language, env) ==
    translate_subtitles_try(srt_path, target_language, source_language, env)

\* except Exception: log and return srt_path.
translate_subtitles(srt_path, target_language, source_language, env) ==
    LET r == translate_subtitles_try(srt_path, target_language, source_language, env)
    IN  IF r.raised THEN [r EXCEPT !.raised = FALSE, !.path = srt_path] ELSE r

\* ------------------------------------------ worker/processors/tts_generator.py
MODEL_CATALOG == {"en", "ru", "es", "fr", "de", "it"}   \* each with female and male

_resolve_lang_key(language) ==
    IF language \in {None, ""} THEN "en" ELSE First2(Lower(language))

\* What the synthesis backends answer during one call of generate_voiceover.
VoiceEnv ==
    [readable : BOOLEAN,                    \* the caption file opens
     texts : 0..MaxSegments,                \* segments with text after parsing
     synth : SUBSET (1..MaxSegments),       \* segments whose synthesis succeeds
     mix : {"ok", "fail", "raise"},         \* the ffmpeg mix of the segment clips
     gtts : BOOLEAN]                        \* the universal fallback is available

\* _create_synchronized_audio_track: every failure is logged and gives None.
_create_synchronized_audio_track(segment_files, mix) ==
    IF segment_files = {} THEN None
    ELSE IF mix = "ok" THEN "voiceover.wav"
    ELSE None

\* The voices of every catalog language.
CatalogVoices == {"female", "male"}

\* _select_model_config: TTSLanguageUnsupported for a language without catalog
\* entry; for a voice the catalog does not have, the "female" configuration
\* of the same language (with a warning); the requested one otherwise.
_select_model_config(language, voice) ==
    IF _resolve_lang_key(language) \notin MODEL_CATALOG
    THEN [raised |-> TRUE, voice |-> None]
    ELSE IF voice \notin CatalogVoices
    THEN [raised |-> FALSE, voice |-> "female"]
    ELSE [raised |-> FALSE, voice |-> voice]

\* generate_voiceover_simple without the gTTS branches.
generate_voiceover_simple_local_only(language, env) ==
    IF ~env.readable THEN None
    ELSE IF env.texts = 0 THEN None
    ELSE IF _resolve_lang_key(language) \notin MODEL_CATALOG THEN None
    ELSE IF 1 \in env.synth THEN "voiceover.wav"
    ELSE None

\* generate_voiceover_simple for a language without catalog entry: one clip
\* from the joined text through gTTS, or None.
generate_voiceover_simple(language, env) ==
    IF ~env.readable THEN None
    ELSE IF env.texts = 0 THEN None
    ELSE IF _resolve_lang_key(language) \notin MODEL_CATALOG
    THEN IF env.gtts THEN "voiceover.wav" ELSE None
    ELSE IF 1 \in env.synth THEN "voiceover.wav"
    ELSE IF env.gtts THEN "voiceover.wav"
    ELSE None

\* The segment loop of generate_voiceover_synchronized with one segment's
\* synthesis error leaving the loop: the segments before the first failing
\* one were attempted and gave their clips.
synthesize_segments_try(env) ==
    LET failing == {i \in 1..env.texts : i \notin env.synth}
        first == IF failing = {} THEN env.texts + 1
                 ELSE CHOOSE i \in failing : \A j \in failing : i <= j
    IN  [raised |-> failing # {},
         attempted |-> {i \in 1..env.texts : i <= first},
         segment_files |-> {i \in 1..env.texts : i < first}]

\* The segment loop without "except Exception: ... continue".
synthesize_segments_uncaught(env) == synthesize_segments_try(env)

\* for i, segment in enumerate(segments): try: synthesize; append /
\* except Exception: log; continue
synthesize_segments(env) ==
    [raised |-> FALSE,
     attempted |-> 1..env.texts,
     segment_files |-> {i \in 1..env.texts : i \in env.synth}]

\* The body of generate_voiceover_synchronized inside its try block.
generate_voiceover_try(language, voice, env) ==
    LET loop == synthesize_segments(env)
        model_cfg == _select_model_config(language, voice)
        ret(path, why, attempted, segment_files) ==
            [raised |-> FALSE, path |-> path, why |-> why,
             attempted |-> attempted, segments |-> segment_files,
             voice |-> model_cfg.voice]
        raise(attempted) ==
            [raised |-> TRUE, path |-> None, why |-> "error",
             attempted |-> attempted, segments |-> {}, voice |-> model_cfg.voice]
    IN  IF ~env.readable THEN raise({})
        ELSE IF env.texts = 0 THEN ret(None, "no_text", {}, {})
        ELSE IF model_cfg.raised
        THEN ret(generate_voiceover_simple(language, env), "simple", {}, {})
        ELSE IF loop.raised THEN raise(loop.attempted)
        ELSE IF loop.segment_files = {}
        THEN ret(None, "no_segment", loop.attempted, {})
        ELSE ret(_create_synchronized_audio_track(loop.segment_files, env.mix),
                 "synchronized", loop.attempted, loop.segment_files)

\* generate_voiceover_synchronized with its except clause left out.
generate_voiceover_uncaught(language, voice, env) ==
    generate_voiceover_try(language, voice, env)

\* generate_voiceover = generate_voiceover_synchronized; except Exception:
\* log and return None.
generate_voiceover(language, voice, env) ==
    LET r == generate_voiceover_try(language, voice, env)
    IN  IF r.raised THEN [r EXCEPT !.raised = FALSE, !.path = None] ELSE r

\* ----------------------------------------- worker/processors/video_processor.py
\* process_video_with_subtitles: the ffmpeg run ends with code 0 and the
\* output file ("ok"), with a non-zero code ("ffmpeg_error"), or with code 0
\* and without writing the output file ("no_output"); the message of the
\* first failure is the code and result.stderr[:500], and output_path.exists()
\* looks at the scratch directory, where an earlier run may have left one.
CompositeAnswers == {"ok", "ffmpeg_error", "no_output"}

process_video_with_subtitles(answer, work_dir) ==
    CASE answer = "ffmpeg_error" ->
            [raised |-> TRUE, msg |-> "ffmpeg failed with code 1: stderr[:500]", path |-> None,
             written |-> {}]
      [] answer = "no_output" /\ "output.mp4" \notin work_dir ->
            [raised |-> TRUE, msg |-> "Output file was not created: output.mp4", path |-> None,
             written |-> {}]
      [] OTHER ->
            [raised |-> FALSE, msg |-> None, path |-> "output.mp4",
             written |-> IF answer = "ok" THEN {"output.mp4"} ELSE {}]

\* ------------------------------------------------------- worker/notifier.py
\* send_result_to_user: the session, the lookup of the Task and its user, or
\* the event loop may fail ("error"); the sends inside _send_notification log
\* their own failures ("send_error").
NotifyAnswers == {"ok", "send_error", "error"}

send_result_to_user_try(answer) ==
    IF answer = "error" THEN "raise" ELSE "return"

\* send_result_to_user with its except clause left out.
send_result_to_user_uncaught(answer) ==
    send_result_to_user_try(answer)

\* except Exception as e: logger.error(...)
send_result_to_user(answer) ==
    IF send_result_to_user_try(answer) = "raise" THEN "return" ELSE "return"

\* send_status_update: without the Redis mapping task:<id>:status_msg the
\* update is dropped; a failing edit and any other exception are logged.
StatusAnswers == {"ok", "redis_error", "edit_error", "loop_error"}

\* send_status_update without the look at the mapping.
send_status_update_unmapped(answer, has_mapping) ==
    IF answer \in {"redis_error", "edit_error"} THEN "logged" ELSE "delivered"

send_status_update(answer, has_mapping) ==
    IF answer = "redis_error" THEN "logged"
    ELSE IF ~has_mapping THEN "dropped"
    ELSE IF answer = "edit_error" THEN "logged"
    ELSE "delivered"

\* worker/tasks.py, inside "try: asyncio.run(send_status_update(...))":
\* asyncio.run itself may raise ("loop_error").
emit_status_update_try(answer, has_mapping) ==
    IF answer = "loop_error" THEN [abort |-> TRUE, sent |-> "raised"]
    ELSE [abort |-> FALSE, sent |-> send_status_update(answer, has_mapping)]

\* The status update without the orchestrator's "except Exception: pass".
emit_status_update_uncaught(answer, has_mapping) ==
    emit_status_update_try(answer, has_mapping)

\* try: asyncio.run(send_status_update(...)) / except Exception: pass
emit_status_update(answer, has_mapping) ==
    LET r == emit_status_update_try(answer, has_mapping)
    IN  [r EXCEPT !.abort = FALSE]

\* --------------------------------------------------------------- the state
VARIABLES
    tasks,        \* the tasks table: TaskIds -> row
    created,      \* how many Tasks the chat layer has inserted (ids 1..created)
    redisOptions, \* Redis task:<id>:options: an option bundle, or NoOptions
    statusMsg,    \* Redis task:<id>:status_msg is stored
    queue,        \* the RQ queue "video_processing": Task ids, first in first out
    deliveries,   \* how often the queue has handed each Task id to a worker
    files,        \* the files in each Task's scratch directory
    pc,           \* each worker's position in process_video_task
    cur,          \* the task_id argument of each worker's run (0: none)
    loc,          \* the local variables of each worker's run
    hist,         \* what each worker's run has done so far (a record of the run)
    call          \* one call of a processor function on its own: arguments and result

vars == <<tasks, created, redisOptions, statusMsg, queue, deliveries, files, pc, cur, loc, hist, call>>

Stages == <<"download", "transcribe", "translate", "voiceover", "composite">>
StagePc == {"download", "transcribe", "translate", "voiceover", "composite"}

NoLocals ==
    [subtitle_options |-> DefaultOptions, input_video_path |-> None,
     subtitles_path |-> None, detected_language |-> None,
     voiceover_path |-> None, error |-> None]

NoHistory ==
    [ran |-> <<>>,            \* the stages started, in order
     raised |-> None,         \* the stage whose error reached the except clause
     message |-> None,        \* str(e) of that error
     returned |-> None,       \* how the stage that ended last returned
     lost_updates |-> FALSE,  \* a status update of the run was not delivered
     notified |-> 0,          \* calls of send_result_to_user
     notified_at |-> None,    \* the persisted status at the (last) call
     notify_answer |-> None]  \* what the (last) call ran into

NoCall == [fn |-> None]

Init ==
    /\ tasks = [t \in TaskIds |-> NoRow]
    /\ created = 0
    /\ redisOptions = [t \in TaskIds |-> NoOptions]
    /\ statusMsg = [t \in TaskIds |-> FALSE]
    /\ queue = <<>>
    /\ deliveries = [t \in TaskIds |-> 0]
    /\ files = [t \in TaskIds |-> {}]
    /\ pc = [w \in Workers |-> "idle"]
    /\ cur = [w \in Workers |-> 0]
    /\ loc = [w \in Workers |-> NoLocals]
    /\ hist = [w \in Workers |-> NoHistory]
    /\ call = NoCall

InQueue(t) == \E i \in 1..Len(queue) : queue[i] = t
Running(t) == \E w \in Workers : cur[w] = t

\* ------------------------------------------------------------ chat layer
\* enqueue_video_task: insert the Task, store the extra options in Redis
\* (a failure is swallowed), enqueue the job.
enqueue_video_task(data, options, redis_ok) ==
    /\ created < Cardinality(TaskIds)
    /\ LET t == created + 1
       IN  /\ created' = t
           /\ tasks' = [tasks EXCEPT ![t] = NewTask(data)]
           /\ redisOptions' = [redisOptions EXCEPT ![t] = IF redis_ok THEN options ELSE NoOptions]
           /\ queue' = Append(queue, t)
    /\ UNCHANGED <<statusMsg, deliveries, files, pc, cur, loc, hist, call>>

\* start_processing, after enqueue_video_task returned: the status message
\* is sent and its mapping stored in Redis (a failure is swallowed; the
\* other enqueueing handlers store none).
store_status_msg(t) ==
    /\ t <= created
    /\ ~statusMsg[t]
    /\ statusMsg' = [statusMsg EXCEPT ![t] = TRUE]
    /\ UNCHANGED <<tasks, created, redisOptions, queue, deliveries, files, pc, cur, loc, hist, call>>

\* ------------------------------------------------------------- the queue
\* A worker that reads the head of the queue without removing it.
Dequeue_peek(w) ==
    /\ pc[w] = "idle"
    /\ queue # <<>>
    /\ cur' = [cur EXCEPT ![w] = Head(queue)]
    /\ deliveries' = [deliveries EXCEPT ![Head(queue)] = @ + 1]
    /\ pc' = [pc EXCEPT ![w] = "start"]
    /\ loc' = [loc EXCEPT ![w] = NoLocals]
    /\ hist' = [hist EXCEPT ![w] = NoHistory]
    /\ UNCHANGED <<tasks, created, redisOptions, statusMsg, queue, files, call>>

\* An idle worker takes the job at the head of the queue.
Dequeue(w) ==
    /\ pc[w] = "idle"
    /\ queue # <<>>
    /\ cur' = [cur EXCEPT ![w] = Head(queue)]
    /\ queue' = Tail(queue)
    /\ deliveries' = [deliveries EXCEPT ![Head(queue)] = @ + 1]
    /\ pc' = [pc EXCEPT ![w] = "start"]
    /\ loc' = [loc EXCEPT ![w] = NoLocals]
    /\ hist' = [hist EXCEPT ![w] = NoHistory]
    /\ UNCHANGED <<tasks, created, redisOptions, statusMsg, files, call>>

\* At-least-once delivery: a job that was handed out and is no longer held
\* by a worker may be put on the queue again.
Redeliver(t) ==
    /\ deliveries[t] >= 1
    /\ deliveries[t] < MaxDeliveries
    /\ ~InQueue(t)
    /\ ~Running(t)
    /\ queue' = Append(queue, t)
    /\ UNCHANGED <<tasks, created, redisOptions, statusMsg, deliveries, files, pc, cur, loc, hist, call>>

\* -------------------------------------------- worker/tasks.py: the gates
\* if task.generate_subtitles:
ShouldTranscribe(task) == task.generate_subtitles

\* if task.translate and subtitles_path:
ShouldTranslate_ungated(task, subtitles_path) == subtitles_path # None

ShouldTranslate(task, subtitles_path) == task.translate /\ subtitles_path # None

\* The voiceover gate without the look at subtitles_path.
ShouldVoiceover_ungated(task, subtitles_path) == task.voiceover

\* if task.voiceover and subtitles_path:
ShouldVoiceover(task, subtitles_path) == task.voiceover /\ subtitles_path # None

\* detected_language or task.source_language or "auto"
SourceLangFor(task, detected_language) ==
    IF detected_language \notin {None, ""} THEN detected_language
    ELSE IF task.source_language \notin {None, ""} THEN task.source_language
    ELSE "auto"

\* The choice of the voiceover language without the look at the target.
VoiceLang_source_only(task, detected_language) ==
    LET picked == IF detected_language \notin {None, ""} THEN detected_language
                  ELSE task.source_language
    IN  IF picked \in {None, "", "auto"} THEN "en" ELSE picked

\* The language handed to generate_voiceover.
VoiceLang(task, detected_language) ==
    LET picked ==
            IF task.translate /\ task.target_language \notin {None, "", "auto"}
            THEN task.target_language
            ELSE IF detected_language \notin {None, ""} THEN detected_language
            ELSE task.source_language
    IN  IF picked \in {None, "", "auto"} THEN "en" ELSE picked

\* subtitle_language handed to process_video_with_subtitles (147-153).
SubtitleLang(task, detected_language) ==
    LET picked ==
            IF task.translate /\ task.target_language \notin {None, "", "auto"}
            THEN task.target_language
            ELSE IF detected_language \notin {None, ""} THEN detected_language
            ELSE task.source_language
    IN  IF picked \in {None, "", "auto"} THEN None ELSE picked

\* ------------------------------------- worker/tasks.py: process_video_task
Emit(w, answer) == emit_status_update(answer, statusMsg[cur[w]])

\* An exception reaches "except Exception as e" of process_video_task.
Raise(w, stage, msg) ==
    /\ pc' = [pc EXCEPT ![w] = "handler"]
    /\ loc' = [loc EXCEPT ![w].error = msg]
    /\ hist' = [hist EXCEPT ![w].raised = stage, ![w].message = msg]

\* The status update before a stage raised past the orchestrator.
AbortOnUpdate(w) ==
    /\ pc' = [pc EXCEPT ![w] = "handler"]
    /\ loc' = [loc EXCEPT ![w].error = "status update failed"]
    /\ hist' = [hist EXCEPT ![w].lost_updates = TRUE]

\* The status update is over; the stage starts.
Enter(w, stage, sent) ==
    /\ pc' = [pc EXCEPT ![w] = stage]
    /\ hist' = [hist EXCEPT ![w].ran = Append(@, stage),
                            ![w].returned = None,
                            ![w].lost_updates = @ \/ sent # "delivered"]

\* get_task_sync, then the extra options from Redis (lines 27-46).
Start(w) ==
    /\ pc[w] = "start"
    /\ LET t == cur[w]
       IN  IF t > created
           THEN /\ pc' = [pc EXCEPT ![w] = "done"]
                /\ UNCHANGED <<redisOptions, loc>>
           ELSE \E answer \in {"ok", "get_error", "delete_error"} :
                    LET raw_opts == IF answer = "get_error" THEN NoOptions ELSE redisOptions[t]
                    IN  /\ loc' = [loc EXCEPT ![w].subtitle_options =
                                      IF raw_opts # NoOptions THEN raw_opts ELSE DefaultOptions]
                        /\ redisOptions' = [redisOptions EXCEPT ![t] =
                                      IF raw_opts # NoOptions /\ answer = "ok" THEN NoOptions ELSE @]
                        /\ pc' = [pc EXCEPT ![w] = "mark"]
    /\ UNCHANGED <<tasks, created, statusMsg, queue, deliveries, files, cur, hist, call>>

\* update_task_status_sync(db, task_id, PROCESSING); work_dir.mkdir (48-53).
MarkProcessing(w) ==
    /\ pc[w] = "mark"
    /\ tasks' = [tasks EXCEPT ![cur[w]] = update_task_status_sync(@, PROCESSING, NoKwargs)]
    /\ pc' = [pc EXCEPT ![w] = "pre_download"]
    /\ UNCHANGED <<created, redisOptions, statusMsg, queue, deliveries, files, cur, loc, hist, call>>

\* The status update of step 1 (55-61).
PreDownload(w) ==
    /\ pc[w] = "pre_download"
    /\ \E answer \in StatusAnswers :
          LET r == Emit(w, answer)
          IN  IF r.abort
              THEN AbortOnUpdate(w)
              ELSE Enter(w, "download", r.sent) /\ UNCHANGED loc
    /\ UNCHANGED <<tasks, created, redisOptions, statusMsg, queue, deliveries, files, cur, call>>

\* download_video returns or raises; the existence check; input_file_path (62-73).
Download(w) ==
    /\ pc[w] = "download"
    /\ LET t == cur[w]
       IN  \E r \in {download_video(tasks[t].input_type, env) : env \in DownloadEnv} :
                  IF r.raised
                  THEN Raise(w, "download", r.msg) /\ UNCHANGED <<tasks, files>>
                  ELSE IF ~DownloadAccepted(r)
                  THEN Raise(w, "download", "Failed to download video")
                       /\ UNCHANGED <<tasks, files>>
                  ELSE /\ files' = [files EXCEPT ![t] = @ \cup {r.path}]
                       /\ tasks' = [tasks EXCEPT ![t] = update_task_status_sync(
                                        @, PROCESSING, [input_file_path |-> r.path])]
                       /\ loc' = [loc EXCEPT ![w].input_video_path = r.path]
                       /\ pc' = [pc EXCEPT ![w] = "pre_transcribe"]
                       /\ UNCHANGED hist
    /\ UNCHANGED <<created, redisOptions, statusMsg, queue, deliveries, cur, call>>

\* Step 2's gate and status update (76-84), or its else branch (97-99).
PreTranscribe(w) ==
    /\ pc[w] = "pre_transcribe"
    /\ LET task == tasks[cur[w]]
       IN  IF ShouldTranscribe(task)
           THEN \E answer \in StatusAnswers :
                   LET r == Emit(w, answer)
                   IN  IF r.abort
                       THEN AbortOnUpdate(w)
                       ELSE Enter(w, "transcribe", r.sent) /\ UNCHANGED loc
           ELSE /\ loc' = [loc EXCEPT ![w].subtitles_path = None,
                                      ![w].detected_language =
                                          IF task.source_language \notin {None, "", "auto"}
                                          THEN task.source_language ELSE None]
                /\ pc' = [pc EXCEPT ![w] = "pre_translate"]
                /\ UNCHANGED hist
    /\ UNCHANGED <<tasks, created, redisOptions, statusMsg, queue, deliveries, files, cur, call>>

\* transcribe_audio returns or raises; the detected language is stored (85-96).
Transcribe(w) ==
    /\ pc[w] = "transcribe"
    /\ LET t == cur[w]
           task == tasks[t]
       IN  \E env \in TranscribeEnv :
              LET r == transcribe_audio(task.source_language, env)
              IN  IF r.raised
                  THEN Raise(w, "transcribe", r.msg) /\ UNCHANGED <<tasks, files>>
                  ELSE /\ files' = [files EXCEPT ![t] = @ \cup {r.path}]
                       /\ loc' = [loc EXCEPT ![w].subtitles_path = r.path,
                                             ![w].detected_language = r.detected_language]
                       /\ tasks' = IF r.detected_language \notin {None, ""}
                                      /\ r.detected_language # task.source_language
                                   THEN [tasks EXCEPT ![t] = update_task_status_sync(
                                            @, PROCESSING,
                                            [source_language |-> r.detected_language])]
                                   ELSE tasks
                       /\ pc' = [pc EXCEPT ![w] = "pre_translate"]
                       /\ UNCHANGED hist
    /\ UNCHANGED <<created, redisOptions, statusMsg, queue, deliveries, cur, call>>

\* Step 3's gate and status update (101-108).
PreTranslate(w) ==
    /\ pc[w] = "pre_translate"
    /\ IF ShouldTranslate(tasks[cur[w]], loc[w].subtitles_path)
       THEN \E answer \in StatusAnswers :
               LET r == Emit(w, answer)
               IN  IF r.abort
                   THEN AbortOnUpdate(w)
                   ELSE Enter(w, "translate", r.sent) /\ UNCHANGED loc
       ELSE /\ pc' = [pc EXCEPT ![w] = "pre_voiceover"]
            /\ UNCHANGED <<loc, hist>>
    /\ UNCHANGED <<tasks, created, redisOptions, statusMsg, queue, deliveries, files, cur, call>>

\* subtitles_path = translate_subtitles(...) (109-115).
Translate(w) ==
    /\ pc[w] = "translate"
    /\ LET t == cur[w]
           task == tasks[t]
       IN  \E r \in {translate_subtitles(loc[w].subtitles_path, task.target_language,
                                          SourceLangFor(task, loc[w].detected_language), env) :
                      env \in TranslateEnv} :
                  IF r.raised
                  THEN Raise(w, "translate", "translation failed") /\ UNCHANGED files
                  ELSE /\ files' = [files EXCEPT ![t] = @ \cup r.written]
                       /\ loc' = [loc EXCEPT ![w].subtitles_path = r.path]
                       /\ hist' = [hist EXCEPT ![w].returned = r.why]
                       /\ pc' = [pc EXCEPT ![w] = "pre_voiceover"]
    /\ UNCHANGED <<tasks, created, redisOptions, statusMsg, queue, deliveries, cur, call>>

\* Step 4's gate and status update (117-125).
PreVoiceover(w) ==
    /\ pc[w] = "pre_voiceover"
    /\ IF ShouldVoiceover(tasks[cur[w]], loc[w].subtitles_path)
       THEN \E answer \in StatusAnswers :
               LET r == Emit(w, answer)
               IN  IF r.abort
                   THEN AbortOnUpdate(w)
                   ELSE Enter(w, "voiceover", r.sent) /\ UNCHANGED loc
       ELSE /\ pc' = [pc EXCEPT ![w] = "pre_composite"]
            /\ UNCHANGED <<loc, hist>>
    /\ UNCHANGED <<tasks, created, redisOptions, statusMsg, queue, deliveries, files, cur, call>>

\* voiceover_path = generate_voiceover(...) (126-138).
Voiceover(w) ==
    /\ pc[w] = "voiceover"
    /\ LET t == cur[w]
           voice_lang == VoiceLang(tasks[t], loc[w].detected_language)
       IN  \E r \in {generate_voiceover(voice_lang, loc[w].subtitle_options.voice, env) :
                      env \in VoiceEnv} :
                  IF r.raised
                  THEN Raise(w, "voiceover", "voiceover failed") /\ UNCHANGED files
                  ELSE /\ files' = [files EXCEPT ![t] =
                                       IF r.path # None THEN @ \cup {r.path} ELSE @]
                       /\ loc' = [loc EXCEPT ![w].voiceover_path = r.path]
                       /\ hist' = [hist EXCEPT ![w].returned = r.why]
                       /\ pc' = [pc EXCEPT ![w] = "pre_composite"]
    /\ UNCHANGED <<tasks, created, redisOptions, statusMsg, queue, deliveries, cur, call>>

\* Step 5's status update (140-146).
PreComposite(w) ==
    /\ pc[w] = "pre_composite"
    /\ \E answer \in StatusAnswers :
          LET r == Emit(w, answer)
          IN  IF r.abort
              THEN AbortOnUpdate(w)
              ELSE Enter(w, "composite", r.sent) /\ UNCHANGED loc
    /\ UNCHANGED <<tasks, created, redisOptions, statusMsg, queue, deliveries, files, cur, call>>

\* process_video_with_subtitles returns or raises; on return the Task is
\* updated to COMPLETED with both artifact paths (155-174).
Composite(w) ==
    /\ pc[w] = "composite"
    /\ LET t == cur[w]
       IN  \E answer \in CompositeAnswers :
              LET r == process_video_with_subtitles(answer, files[t])
              IN  IF r.raised
                  THEN /\ pc' = [pc EXCEPT ![w] = "handler"]
                       /\ loc' = [loc EXCEPT ![w].error = r.msg]
                       /\ hist' = [hist EXCEPT ![w].raised = "composite",
                                               ![w].message = r.msg]
                       /\ UNCHANGED <<tasks, files>>
                  ELSE /\ files' = [files EXCEPT ![t] = @ \cup r.written]
                       /\ tasks' = [tasks EXCEPT ![t] = update_task_status_sync(
                                        @, COMPLETED,
                                        [output_file_path |-> r.path,
                                         subtitles_file_path |-> loc[w].subtitles_path])]
                       /\ pc' = [pc EXCEPT ![w] = "notify_completed"]
                       /\ UNCHANGED <<loc, hist>>
    /\ UNCHANGED <<created, redisOptions, statusMsg, queue, deliveries, cur, call>>

\* send_result_to_user(task_id) inside the try block (178-180): an exception
\* leaving it would be caught by "except Exception as e" like a stage's.
NotifyCompleted(w) ==
    /\ pc[w] = "notify_completed"
    /\ \E answer \in NotifyAnswers :
          /\ hist' = [hist EXCEPT ![w].notified = @ + 1,
                                  ![w].notified_at = tasks[cur[w]].status,
                                  ![w].notify_answer = answer]
          /\ IF send_result_to_user(answer) = "raise"
             THEN /\ pc' = [pc EXCEPT ![w] = "handler"]
                  /\ loc' = [loc EXCEPT ![w].error = "notification failed"]
             ELSE /\ pc' = [pc EXCEPT ![w] = "done"]
                  /\ UNCHANGED loc
    /\ UNCHANGED <<tasks, created, redisOptions, statusMsg, queue, deliveries, files, cur, call>>

\* The except clause without its update_task_status_sync(FAILED, ...).
Handler_without_write(w) ==
    /\ pc[w] = "handler"
    /\ pc' = [pc EXCEPT ![w] = "notify_failed"]
    /\ UNCHANGED <<tasks, created, redisOptions, statusMsg, queue, deliveries, files, cur, loc, hist, call>>

\* except Exception as e: update_task_status_sync(FAILED, error_message) (182-192).
Handler(w) ==
    /\ pc[w] = "handler"
    /\ tasks' = [tasks EXCEPT ![cur[w]] = update_task_status_sync(
                     @, FAILED, [error_message |-> loc[w].error])]
    /\ pc' = [pc EXCEPT ![w] = "notify_failed"]
    /\ UNCHANGED <<created, redisOptions, statusMsg, queue, deliveries, files, cur, loc, hist, call>>

\* try: send_result_to_user(task_id) / except: log (194-199).
NotifyFailed(w) ==
    /\ pc[w] = "notify_failed"
    /\ \E answer \in NotifyAnswers :
          hist' = [hist EXCEPT ![w].notified = @ + 1,
                               ![w].notified_at = tasks[cur[w]].status,
                               ![w].notify_answer = answer]
    /\ pc' = [pc EXCEPT ![w] = "done"]
    /\ UNCHANGED <<tasks, created, redisOptions, statusMsg, queue, deliveries, files, cur, loc, call>>

\* finally: db.close(); the job is over and the worker waits for the next.
Return(w) ==
    /\ pc[w] = "done"
    /\ pc' = [pc EXCEPT ![w] = "idle"]
    /\ cur' = [cur EXCEPT ![w] = 0]
    /\ loc' = [loc EXCEPT ![w] = NoLocals]
    /\ hist' = [hist EXCEPT ![w] = NoHistory]
    /\ UNCHANGED <<tasks, created, redisOptions, statusMsg, queue, deliveries, files, call>>

process_video_task(w) ==
    \/ Start(w)
    \/ MarkProcessing(w)
    \/ PreDownload(w)
    \/ Download(w)
    \/ PreTranscribe(w)
    \/ Transcribe(w)
    \/ PreTranslate(w)
    \/ Translate(w)
    \/ PreVoiceover(w)
    \/ Voiceover(w)
    \/ PreComposite(w)
    \/ Composite(w)
    \/ NotifyCompleted(w)
    \/ Handler(w)
    \/ NotifyFailed(w)
    \/ Return(w)

Next ==
    \/ \E data \in TaskData, options \in OptionBundles, redis_ok \in BOOLEAN :
          enqueue_video_task(data, options, redis_ok)
    \/ \E t \in TaskIds : store_status_msg(t)
    \/ \E w \in Workers : Dequeue(w)
    \/ \E t \in TaskIds : Redeliver(t)
    \/ \E w \in Workers : process_video_task(w)

Spec == Init /\ [][Next]_vars

\* ================================================================ properties
\* The worker w is inside a run for a Task that exists.
InRun(w) == pc[w] # "idle" /\ cur[w] \in TaskIds /\ cur[w] <= created

\* The stage was started in w's run.
Ran(w, stage) == \E i \in 1..Len(hist[w].ran) : hist[w].ran[i] = stage

\* The position of a stage in the pipeline.
StageIndex(stage) == CHOOSE i \in 1..Len(Stages) : Stages[i] = stage


\* C1: processing is persisted before the download stage starts, and at
\* every moment a stage (download, transcribe, translate, voiceover,
\* composite) is executing for a Task, the Task's persisted status is
\* processing.
C1_ProcessingWhileStageRuns ==
    \A w \in Workers :
        pc[w] \in StagePc \cup {"pre_download"} => tasks[cur[w]].status = PROCESSING

\* A stage of a redelivered run is executing: the row said completed or
\* failed when the run began.
C1_Witness ==
    \E w \in Workers :
        /\ pc[w] = "composite"
        /\ deliveries[cur[w]] = 2
        /\ tasks[cur[w]].status = PROCESSING

\* C2: if download, transcription or composition raises, the Task's status
\* becomes failed with error_message equal to the raised error's message,
\* and no later stage of that run executes.
C2_StageErrorFailsTask ==
    \A w \in Workers :
        hist[w].raised \in {"download", "transcribe", "composite"} =>
            /\ pc[w] \in {"handler", "notify_failed", "done"}
            /\ hist[w].ran[Len(hist[w].ran)] = hist[w].raised
            /\ pc[w] \in {"notify_failed", "done"} =>
                  /\ tasks[cur[w]].status = FAILED
                  /\ tasks[cur[w]].error_message = hist[w].message

\* Transcription raised: the run ended failed with Whisper's message and
\* neither translate, voiceover nor composite started.
C2_Witness ==
    \E w \in Workers :
        /\ pc[w] = "done"
        /\ hist[w].raised = "transcribe"
        /\ hist[w].ran = <<"download", "transcribe">>
        /\ tasks[cur[w]].status = FAILED
        /\ tasks[cur[w]].error_message = hist[w].message
        /\ tasks[cur[w]].translate /\ tasks[cur[w]].voiceover

\* C3: when the composition stage returns, the Task's status becomes
\* completed and output_file_path and subtitles_file_path are recorded in
\* that same update; completed is never persisted by a run whose
\* composition stage has not succeeded.
C3_CompletedOnlyByComposition ==
    [][\A t \in TaskIds :
          /\ (\A w \in Workers :
                 cur[w] = t /\ pc[w] = "composite" /\ pc'[w] = "notify_completed" =>
                    /\ tasks'[t].status = COMPLETED
                    /\ tasks'[t].output_file_path = "output.mp4"
                    /\ tasks'[t].subtitles_file_path = loc[w].subtitles_path)
          /\ (tasks[t].status # COMPLETED /\ tasks'[t].status = COMPLETED =>
                 \E w \in Workers :
                    cur[w] = t /\ pc[w] = "composite" /\ pc'[w] = "notify_completed")
      ]_vars

\* Composition has just returned for a run that translated its captions.
C3_Witness ==
    \E w \in Workers :
        /\ pc[w] = "notify_completed"
        /\ tasks[cur[w]].status = COMPLETED
        /\ tasks[cur[w]].output_file_path = "output.mp4"
        /\ tasks[cur[w]].subtitles_file_path \in TranslatedFiles

\* C4: the stages of one run execute in the order download, transcribe,
\* translate, voiceover, composite; transcribe never runs when
\* generate_subtitles is false, translate never when translate is false,
\* voiceover never when voiceover is false.
C4_StageOrderAndGates ==
    \A w \in Workers :
        LET ran == hist[w].ran
        IN  /\ \A i, j \in 1..Len(ran) : i < j => StageIndex(ran[i]) < StageIndex(ran[j])
            /\ pc[w] \in StagePc => ran # <<>> /\ ran[Len(ran)] = pc[w]
            /\ Ran(w, "transcribe") => tasks[cur[w]].generate_subtitles
            /\ Ran(w, "translate") => tasks[cur[w]].translate
            /\ Ran(w, "voiceover") => tasks[cur[w]].voiceover
            /\ ran # <<>> => ran[1] = "download"

\* A run without translation: the translate stage was skipped and the other
\* four ran in order.
C4_Witness ==
    \E w \in Workers :
        /\ pc[w] = "done"
        /\ ~tasks[cur[w]].translate
        /\ hist[w].ran = <<"download", "transcribe", "voiceover", "composite">>

\* The status changes of created -> processing -> {completed | failed}.
StatusMachine ==
    {<<CREATED, PROCESSING>>, <<PROCESSING, COMPLETED>>, <<PROCESSING, FAILED>>}

\* C5: every status change process_video_task makes follows
\* created -> processing -> {completed | failed}: cancelled is never
\* written, and a Task that is completed or failed is never moved back to
\* processing, also when the queue delivers its identifier again.
C5_StatusFollowsStateMachine ==
    [][\A t \in TaskIds :
          t <= created /\ tasks'[t].status # tasks[t].status =>
             <<tasks[t].status, tasks'[t].status>> \in StatusMachine
      ]_vars

\* C6: a run that reaches completed or failed calls send_result_to_user
\* exactly once, and only after that status has been persisted.
C6_NotifiedOnceAfterTerminal ==
    \A w \in Workers :
        InRun(w) =>
            /\ hist[w].notified <= 1
            /\ hist[w].notified = 1 =>
                  /\ hist[w].notified_at \in {COMPLETED, FAILED}
                  /\ hist[w].notified_at = tasks[cur[w]].status
            /\ pc[w] = "done" =>
                  /\ tasks[cur[w]].status \in {COMPLETED, FAILED}
                  /\ hist[w].notified = 1

\* A failed run is over: the requester was told once, after failed was stored.
C6_Witness ==
    \E w \in Workers :
        /\ pc[w] = "done"
        /\ tasks[cur[w]].status = FAILED
        /\ hist[w].notified = 1
        /\ hist[w].notified_at = FAILED

\* C7: a failure while delivering the result notification never changes the
\* Task record (completed stays completed, error_message is not set) and
\* the notification is not sent again.
C7_NotificationFailureLeavesTask ==
    [][\A w \in Workers :
          pc[w] \in {"notify_completed", "notify_failed"} /\ pc'[w] # pc[w] =>
             /\ tasks'[cur[w]] = tasks[cur[w]]
             /\ pc'[w] = "done"
             /\ hist'[w].notified = 1
      ]_vars

\* The notification of a completed run ran into an error; the run is over
\* and the row still says completed, without an error message.
C7_Witness ==
    \E w \in Workers :
        /\ pc[w] = "done"
        /\ hist[w].notify_answer = "error"
        /\ hist[w].notified = 1
        /\ tasks[cur[w]].status = COMPLETED
        /\ tasks[cur[w]].error_message = None

\* C8: a status update that fails or raises at a stage boundary never
\* aborts the run: the stage that follows starts in the same step, the
\* except clause is entered only by a stage's error, and the final status
\* and artifact paths are those the stages' outcomes give.
C8_StatusUpdateNeverAborts ==
    \A w \in Workers :
        InRun(w) =>
            /\ pc[w] \in {"handler", "notify_failed"} => hist[w].raised # None
            /\ hist[w].lost_updates /\ hist[w].raised = None =>
                  pc[w] \in StagePc \cup
                      {"pre_transcribe", "pre_translate", "pre_voiceover", "pre_composite",
                       "notify_completed", "done"}
            /\ pc[w] = "done" =>
                  IF hist[w].raised = None
                  THEN /\ tasks[cur[w]].status = COMPLETED
                       /\ tasks[cur[w]].output_file_path = "output.mp4"
                       /\ tasks[cur[w]].subtitles_file_path = loc[w].subtitles_path
                  ELSE /\ tasks[cur[w]].status = FAILED
                       /\ tasks[cur[w]].error_message = hist[w].message

\* A run in which a status update was lost ran all five stages and completed.
C8_Witness ==
    \E w \in Workers :
        /\ pc[w] = "done"
        /\ hist[w].lost_updates
        /\ hist[w].ran = Stages
        /\ tasks[cur[w]].status = COMPLETED

\* C9: no outcome of the translation or voiceover stage fails the Task:
\* neither stage's error reaches the except clause, a run whose download,
\* transcription and composition succeeded ends completed, and when
\* voiceover was requested but gave no path the compositor runs without a
\* voice track and the Task still ends completed.
C9_TranslateVoiceoverNeverFail ==
    \A w \in Workers :
        InRun(w) =>
            /\ hist[w].raised \in {None, "download", "transcribe", "composite"}
            /\ pc[w] \in {"pre_voiceover", "pre_composite"} => hist[w].raised = None
            /\ pc[w] = "done" /\ hist[w].raised = None =>
                  /\ Ran(w, "composite")
                  /\ tasks[cur[w]].status = COMPLETED

\* Voiceover was requested and ran but gave no path; the compositor ran
\* without a voice track and the Task is completed.
C9_Witness ==
    \E w \in Workers :
        /\ pc[w] = "done"
        /\ tasks[cur[w]].voiceover
        /\ Ran(w, "voiceover") /\ Ran(w, "composite")
        /\ loc[w].voiceover_path = None
        /\ tasks[cur[w]].status = COMPLETED

\* ------------------------------------- translate_subtitles on its own
\* The language tags a caller may hand over: none, "auto", tags with and
\* without an alias, upper case and with a region.
LanguageTags == {None, "auto", "en", "es", "ja", "EN", "ES-mx"}

TranslateCalls ==
    [fn : {"translate_subtitles"}, srt_path : {"subtitles.srt"},
     target_language : LanguageTags \ {None}, source_language : LanguageTags,
     env : TranslateEnv, done : {FALSE},
     result : {[raised |-> FALSE, path |-> None, why |-> None, written |-> {},
                attempts |-> <<>>]}]

InitTranslate ==
    /\ tasks = [t \in TaskIds |-> NoRow]
    /\ created = 0
    /\ redisOptions = [t \in TaskIds |-> NoOptions]
    /\ statusMsg = [t \in TaskIds |-> FALSE]
    /\ queue = <<>>
    /\ deliveries = [t \in TaskIds |-> 0]
    /\ files = [t \in TaskIds |-> {}]
    /\ pc = [w \in Workers |-> "idle"]
    /\ cur = [w \in Workers |-> 0]
    /\ loc = [w \in Workers |-> NoLocals]
    /\ hist = [w \in Workers |-> NoHistory]
    /\ call \in TranslateCalls

\* translate_subtitles(srt_path, output_dir, target_language, source_language)
call_translate_subtitles ==
    /\ call.fn = "translate_subtitles"
    /\ ~call.done
    /\ call' = [call EXCEPT
                  !.done = TRUE,
                  !.result = translate_subtitles(call.srt_path, call.target_language,
                                                 call.source_language, call.env)]
    /\ UNCHANGED <<tasks, created, redisOptions, statusMsg, queue, deliveries, files, pc, cur, loc, hist>>

NextTranslate == call_translate_subtitles

SpecTranslate == InitTranslate /\ [][NextTranslate]_vars

\* C10: translate_subtitles never raises: for every input, also a pair with
\* no registered model and no installable package, it returns the original
\* srt_path or the path of a translated file it has just written.
C10_TranslateNeverRaises ==
    call.fn = "translate_subtitles" /\ call.done =>
        /\ ~call.result.raised
        /\ \/ call.result.path = call.srt_path
           \/ /\ call.result.path \in TranslatedFiles
              /\ call.result.path \in call.result.written

\* Neither a direct package nor the pivot is available for ja -> es: the
\* call returned the original path.
C10_Witness ==
    /\ call.fn = "translate_subtitles" /\ call.done
    /\ call.source_language = "ja" /\ call.target_language = "es"
    /\ call.env.direct = "nopkg" /\ call.env.to_pivot = "nopkg"
    /\ call.result.why = "unavailable"
    /\ call.result.path = call.srt_path

\* The normalized form of the source tag of a call: of the supplied tag, or
\* of the detected one when none (or "auto") is supplied.
NormalizedSource ==
    IF call.source_language \in {None, "auto"}
    THEN _normalize_lang_code(call.env.detect)
    ELSE _normalize_lang_code(call.source_language)

\* C11: translation no-op law: when the normalized forms of the source and
\* the target tag are equal, translate_subtitles returns the original
\* srt_path, writes no caption file and turns to no translation backend.
C11_NoOpLaw ==
    /\ call.fn = "translate_subtitles" /\ call.done
    /\ NormalizedSource = _normalize_lang_code(call.target_language)
    => /\ call.result.path = call.srt_path
       /\ call.result.written = {}
       /\ call.result.attempts = <<>>

\* The source tag a call works with: the supplied tag as given, or the
\* normalized detected one.
WorkingSource ==
    IF call.source_language \in {None, "auto"}
    THEN _normalize_lang_code(call.env.detect)
    ELSE call.source_language

WorkingTarget == _normalize_lang_code(call.target_language)

\* The place of a backend attempt in the order direct Marian, direct Argos,
\* source -> pivot (Marian, Argos), pivot -> target (Marian, Argos).
AttemptRank(a) ==
    (IF a.from = WorkingSource /\ a.to = WorkingTarget THEN 0
     ELSE IF a.from = WorkingSource /\ a.to = PIVOT_LANGUAGE THEN 2
     ELSE IF a.from = PIVOT_LANGUAGE /\ a.to = WorkingTarget THEN 4
     ELSE 6)
    + (IF a.backend = "marian" THEN 1 ELSE 2)

\* C12: the translation paths of a pair are attempted in the order direct
\* neural model, direct bridge package, pivot (source to pivot, then pivot
\* to target); a failing path reports unavailable instead of raising, the
\* pivot is attempted only after both direct paths were unavailable, and
\* when every path is unavailable the original captions are kept.
C12_PathOrder ==
    call.fn = "translate_subtitles" /\ call.done =>
        LET a == call.result.attempts
        IN  /\ ~call.result.raised
            /\ \A i \in 1..Len(a) : AttemptRank(a[i]) <= 6
            /\ \A i, j \in 1..Len(a) : i < j => AttemptRank(a[i]) < AttemptRank(a[j])
            /\ \A i \in 1..Len(a) :
                  AttemptRank(a[i]) > 2 =>
                     /\ i > 2 /\ AttemptRank(a[1]) = 1 /\ AttemptRank(a[2]) = 2
                     /\ call.env.direct # "ok"
            /\ \A i \in 1..Len(a) :
                  AttemptRank(a[i]) > 4 => call.env.to_pivot = "ok"
            /\ call.result.why = "unavailable" =>
                  /\ call.result.path = call.srt_path
                  /\ call.result.written = {}
                  /\ a # <<>>

\* Translating a text with the direct package raised; the pivot was tried
\* next, both of its legs worked and the translated file was written.
C12_Witness ==
    /\ call.fn = "translate_subtitles" /\ call.done
    /\ call.env.direct = "fail"
    /\ Len(call.result.attempts) = 6
    /\ call.result.why = "translated"
    /\ call.result.path = "subtitles_es.srt"

\* -------------------------------------- generate_voiceover on its own
VoiceCalls ==
    [fn : {"generate_voiceover"}, language : {None, "en", "EN", "ja"},
     voice : {"female", "male", "robot"}, env : VoiceEnv, done : {FALSE},
     result : {[raised |-> FALSE, path |-> None, why |-> None,
                attempted |-> {}, segments |-> {}, voice |-> None]}]

InitVoice ==
    /\ tasks = [t \in TaskIds |-> NoRow]
    /\ created = 0
    /\ redisOptions = [t \in TaskIds |-> NoOptions]
    /\ statusMsg = [t \in TaskIds |-> FALSE]
    /\ queue = <<>>
    /\ deliveries = [t \in TaskIds |-> 0]
    /\ files = [t \in TaskIds |-> {}]
    /\ pc = [w \in Workers |-> "idle"]
    /\ cur = [w \in Workers |-> 0]
    /\ loc = [w \in Workers |-> NoLocals]
    /\ hist = [w \in Workers |-> NoHistory]
    /\ call \in VoiceCalls

\* generate_voiceover(srt_path, output_dir, language, voice)
call_generate_voiceover ==
    /\ call.fn = "generate_voiceover"
    /\ ~call.done
    /\ call' = [call EXCEPT
                  !.done = TRUE,
                  !.result = generate_voiceover(call.language, call.voice, call.env)]
    /\ UNCHANGED <<tasks, created, redisOptions, statusMsg, queue, deliveries, files, pc, cur, loc, hist>>

NextVoice == call_generate_voiceover

SpecVoice == InitVoice /\ [][NextVoice]_vars

\* The call takes the synchronized path: the caption file opens, has text
\* and the language has a catalog entry.
SynchronizedCall ==
    /\ call.fn = "generate_voiceover" /\ call.done
    /\ call.env.readable /\ call.env.texts > 0
    /\ _resolve_lang_key(call.language) \in MODEL_CATALOG

\* C13: in synchronized mode a segment whose synthesis raises is skipped and
\* every other segment is still synthesized and mixed; if no segment
\* succeeds, generate_voiceover returns no path instead of raising.
C13_FailedSegmentSkipped ==
    SynchronizedCall =>
        /\ ~call.result.raised
        /\ call.result.attempted = 1..call.env.texts
        /\ IF (1..call.env.texts) \cap call.env.synth = {}
           THEN call.result.path = None /\ call.result.why = "no_segment"
           ELSE /\ call.result.why = "synchronized"
                /\ call.result.segments = (1..call.env.texts) \cap call.env.synth
                /\ call.env.mix = "ok" => call.result.path = "voiceover.wav"

\* The first of two segments failed; the second was synthesized and mixed.
C13_Witness ==
    /\ SynchronizedCall
    /\ call.env.texts = 2 /\ call.env.synth = {2}
    /\ call.result.attempted = {1, 2}
    /\ call.result.segments = {2}
    /\ call.result.path = "voiceover.wav"

\* The call reaches the model selection: the caption file opens and has text.
SelectsModel ==
    /\ call.fn = "generate_voiceover" /\ call.done
    /\ call.env.readable /\ call.env.texts > 0

\* The requested (language, gender) pair has a catalog entry.
PairInCatalog ==
    /\ _resolve_lang_key(call.language) \in MODEL_CATALOG
    /\ call.voice \in CatalogVoices

\* C31 as stated: a (language, gender) pair missing from the catalog sends
\* generate_voiceover to simple mode, and then no path is returned only when
\* gTTS is unavailable.
C31_MissingPairGoesSimple ==
    (SelectsModel /\ ~PairInCatalog) =>
        /\ call.result.why = "simple"
        /\ call.result.path = None => ~call.env.gtts

\* C31 amended: a language missing from the catalog sends generate_voiceover
\* to simple mode, where the one clip comes from gTTS selected by language
\* only and no path is returned exactly when gTTS is unavailable; a catalog
\* language with a gender the catalog lacks stays in synchronized mode with
\* the language's female voice.
C31_MissingLanguageGoesSimple ==
    SelectsModel =>
        /\ ~call.result.raised
        /\ IF _resolve_lang_key(call.language) \notin MODEL_CATALOG
           THEN /\ call.result.why = "simple"
                /\ call.result.path = None <=> ~call.env.gtts
           ELSE /\ call.result.why \in {"synchronized", "no_segment"}
                /\ call.result.voice =
                      IF call.voice \in CatalogVoices THEN call.voice ELSE "female"

\* A language without catalog entry got its clip from gTTS in simple mode.
C31_Witness ==
    /\ SelectsModel
    /\ call.language = "ja" /\ call.env.gtts
    /\ call.result.why = "simple"
    /\ call.result.path = "voiceover.wav"

\* ------------------------------------------ download_video on its own
\* The input kinds of download_video: a Telegram file reference, a URL for
\* yt-dlp, an Instagram URL with its instaloader fallback.
\* The sources a Task can name: a Telegram file, the three platforms, and
\* None for a URL of no supported platform.
DownloadKinds == InputTypes \cup {"tiktok", "instagram", None}

DownloadCalls ==
    [fn : {"download_video"}, input_type : DownloadKinds, env : DownloadEnvs,
     done : {FALSE}, result : {DownloadRaise(None)}]

InitDownload ==
    /\ tasks = [t \in TaskIds |-> NoRow]
    /\ created = 0
    /\ redisOptions = [t \in TaskIds |-> NoOptions]
    /\ statusMsg = [t \in TaskIds |-> FALSE]
    /\ queue = <<>>
    /\ deliveries = [t \in TaskIds |-> 0]
    /\ files = [t \in TaskIds |-> {}]
    /\ pc = [w \in Workers |-> "idle"]
    /\ cur = [w \in Workers |-> 0]
    /\ loc = [w \in Workers |-> NoLocals]
    /\ hist = [w \in Workers |-> NoHistory]
    /\ call \in DownloadCalls

\* download_video(task, work_dir)
call_download_video ==
    /\ call.fn = "download_video"
    /\ ~call.done
    /\ call' = [call EXCEPT !.done = TRUE,
                            !.result = download_video(call.input_type, call.env)]
    /\ UNCHANGED <<tasks, created, redisOptions, statusMsg, queue, deliveries, files, pc, cur, loc, hist>>

NextDownload == call_download_video

SpecDownload == InitDownload /\ [][NextDownload]_vars

\* C14: download_video never reports success with an empty file: for every
\* input kind a downloaded file of zero bytes makes the fetch fail (the
\* function raises, or the orchestrator's check after it does), so that no
\* later stage runs and the Task ends failed.
C14_EmptyFileFailsFetch ==
    call.fn = "download_video" /\ call.done =>
        ~(DownloadAccepted(call.result) /\ call.result.empty)

\* The message is the one built from the subprocess's exit code and the
\* first 500 characters of its error stream.
CarriesErrorStream(msg) == msg = "ffmpeg failed with code 1: stderr[:500]"

\* C15: when the media-processing subprocess exits with a non-zero code or
\* the output file is missing, process_video_with_subtitles raises an error
\* whose message carries the subprocess's error stream truncated to 500
\* characters; the Task ends failed with that message and the run records
\* neither completed nor an output_file_path.
C15_CompositeErrorCarriesStderr ==
    \A w \in Workers :
        hist[w].raised = "composite" =>
            /\ CarriesErrorStream(hist[w].message)
            /\ pc[w] \in {"notify_failed", "done"} =>
                  /\ tasks[cur[w]].status = FAILED
                  /\ tasks[cur[w]].error_message = hist[w].message

\* ---------------------------------------------- caption files on their own
\* A time Whisper reports, in seconds as a float: whole milliseconds and
\* whether a fraction of a millisecond is left over (sub = 1).
Instants == [millis : {0, 61001, 3600999}, sub : {0, 1}]

Before(a, b) == a.millis < b.millis \/ (a.millis = b.millis /\ a.sub < b.sub)

\* format_timestamp(seconds): int() drops what is below a millisecond.
format_timestamp(seconds) ==
    LET whole == seconds.millis \div 1000
    IN  [hours |-> whole \div 3600,
         minutes |-> (whole % 3600) \div 60,
         secs |-> whole % 60,
         millis |-> seconds.millis % 1000]

\* The order of two time codes HH:MM:SS,mmm.
TimeCodeValue(tc) == ((tc.hours * 60 + tc.minutes) * 60 + tc.secs) * 1000 + tc.millis

\* What Whisper hands to the writing loop: word-level cues (segment.words)
\* or segment-level ones, each with start < end, in ascending order.
CueTexts == {"hi", "", "7"}

WhisperCues ==
    {c \in [start : Instants, end : Instants, text : CueTexts, level : {"word", "segment"}] :
        Before(c.start, c.end)}

WhisperOutputs ==
    {<<>>} \cup {<<c>> : c \in WhisperCues} \cup
    (IF MaxSegments >= 2 THEN {<<c, d>> : c, d \in WhisperCues} ELSE {}) \cup
    (IF MaxSegments >= 3
     THEN {<<c, d, e>> : c, d, e \in {x \in WhisperCues : x.level = "word" /\ x.text = "hi"}}
     ELSE {})

Ascending(cues) ==
    \A i \in 1..Len(cues) - 1 : Before(cues[i].start, cues[i + 1].start)

\* A word without text is skipped; a segment is written whatever its text.
CueWritten(c) == c.level = "segment" \/ c.text # ""

\* The writing loop of transcribe_audio: index, "start --> end", text.
write_subtitles(cues) ==
    LET kept == SelectSeq(cues, CueWritten)
    IN  [i \in 1..Len(kept) |->
            [index |-> i,
             start |-> format_timestamp(kept[i].start),
             end |-> format_timestamp(kept[i].end),
             text |-> kept[i].text]]

CaptionCalls ==
    [fn : {"transcribe_audio"},
     segments : {o \in WhisperOutputs : Ascending(o)},
     done : {FALSE}, parsed : {FALSE}, file : {<<>>}, rewritten : {<<>>}]

InitCaptions ==
    /\ tasks = [t \in TaskIds |-> NoRow]
    /\ created = 0
    /\ redisOptions = [t \in TaskIds |-> NoOptions]
    /\ statusMsg = [t \in TaskIds |-> FALSE]
    /\ queue = <<>>
    /\ deliveries = [t \in TaskIds |-> 0]
    /\ files = [t \in TaskIds |-> {}]
    /\ pc = [w \in Workers |-> "idle"]
    /\ cur = [w \in Workers |-> 0]
    /\ loc = [w \in Workers |-> NoLocals]
    /\ hist = [w \in Workers |-> NoHistory]
    /\ call \in CaptionCalls

\* transcribe_audio writes subtitles.srt from Whisper's segments.
call_transcribe_audio ==
    /\ call.fn = "transcribe_audio"
    /\ ~call.done
    /\ call' = [call EXCEPT !.done = TRUE, !.file = write_subtitles(call.segments)]
    /\ UNCHANGED <<tasks, created, redisOptions, statusMsg, queue, deliveries, files, pc, cur, loc, hist>>

\* C16: in every caption file written by transcribe_audio every entry has a
\* start time strictly less than its end time, and the entries are in
\* ascending order of start time.
C16_CaptionTimesOrdered ==
    call.fn = "transcribe_audio" /\ call.done =>
        /\ \A i \in 1..Len(call.file) :
              TimeCodeValue(call.file[i].start) < TimeCodeValue(call.file[i].end)
        /\ \A i \in 1..Len(call.file) - 1 :
              TimeCodeValue(call.file[i].start) <= TimeCodeValue(call.file[i + 1].start)

\* ------------------------------------------------- parse_srt and rewriting
\* The text of a caption file, line by line (each line ends with "\n").
NoTimeCode == [hours |-> 0, minutes |-> 0, secs |-> 0, millis |-> 0]

IndexLine(n) == [kind |-> "index", n |-> n, start |-> NoTimeCode, end |-> NoTimeCode, text |-> ""]

TimeLine(start, end) == [kind |-> "time", n |-> 0, start |-> start, end |-> end, text |-> ""]

TextLine(text) == [kind |-> "text", n |-> 0, start |-> NoTimeCode, end |-> NoTimeCode, text |-> text]

\* f"{i}\n" f"{start} --> {end}\n" f"{text}\n\n" for each entry.
RECURSIVE SrtLines(_)
SrtLines(entries) ==
    IF entries = <<>> THEN <<>>
    ELSE LET e == Head(entries)
         IN  <<IndexLine(e.index), TimeLine(e.start, e.end), TextLine(e.text), TextLine("")>>
             \o SrtLines(Tail(entries))

\* What the pieces of the pattern match: (\d+)\n, a line of two
\* \d{2}:\d{2}:\d{2},\d{3} time codes, and the empty line of "\n\n".
MatchesDigits(line) == line.kind = "index" \/ (line.kind = "text" /\ line.text = "7")

DigitsValue(line) == IF line.kind = "index" THEN line.n ELSE 7

TwoDigitHours(tc) == tc.hours <= 99

MatchesTimeCodes(line) ==
    line.kind = "time" /\ TwoDigitHours(line.start) /\ TwoDigitHours(line.end)

IsEmptyLine(line) == line.kind = "text" /\ line.text = ""

\* (.*?)(?=\n\n|\Z) from line j: the shortest run of lines that is followed
\* by an empty line or by the end of the file.
TextLast(content, j) ==
    IF j > Len(content) THEN Len(content)
    ELSE CHOOSE k \in j..Len(content) :
            /\ k = Len(content) \/ IsEmptyLine(content[k + 1])
            /\ \A m \in j..(k - 1) : ~IsEmptyLine(content[m + 1])

IsTextLine(line) == line.kind = "text" /\ line.text # ""

\* re.findall(pattern, content, re.DOTALL), scanning on from line i; the
\* text is kept as its lines, stripped of the empty ones around it.
RECURSIVE FindAll(_, _)
FindAll(content, i) ==
    IF i + 1 > Len(content) THEN <<>>
    ELSE IF MatchesDigits(content[i]) /\ MatchesTimeCodes(content[i + 1])
         THEN LET k == TextLast(content, i + 2)
              IN  <<[index |-> DigitsValue(content[i]),
                     start |-> content[i + 1].start,
                     end |-> content[i + 1].end,
                     text |-> SelectSeq(SubSeq(content, i + 2, k), IsTextLine)]>>
                  \o FindAll(content, k + 1)
         ELSE FindAll(content, i + 1)

parse_srt_first(content) ==
    LET matches == FindAll(content, 1)
    IN  IF matches = <<>> THEN <<>> ELSE <<Head(matches)>>

parse_srt(content) == FindAll(content, 1)

\* The saving loop of translate_subtitles: enumerate(subtitles, start=1),
\* the parsed time codes written back as they were read.
save_translated(subtitles) ==
    [i \in 1..Len(subtitles) |->
        [index |-> i,
         start |-> subtitles[i].start,
         end |-> subtitles[i].end,
         text |-> subtitles[i].text]]

\* translate_subtitles reads the file transcribe_audio wrote, parses it and
\* writes the entries out again.
call_parse_and_save ==
    /\ call.fn = "transcribe_audio"
    /\ call.done
    /\ ~call.parsed
    /\ call' = [call EXCEPT !.parsed = TRUE,
                            !.rewritten = save_translated(parse_srt(SrtLines(call.file)))]
    /\ UNCHANGED <<tasks, created, redisOptions, statusMsg, queue, deliveries, files, pc, cur, loc, hist>>

NextCaptions == call_transcribe_audio \/ call_parse_and_save

SpecCaptions == InitCaptions /\ [][NextCaptions]_vars

\* C17: parsing a caption file with parse_srt and writing it out again as
\* translate_subtitles does keeps the number and the order of the entries,
\* reproduces every start and end time code as it was, and numbers the
\* entries 1..N.
C17_RoundTripKeepsTimeCodes ==
    call.fn = "transcribe_audio" /\ call.parsed =>
        /\ Len(call.rewritten) = Len(call.file)
        /\ \A i \in 1..Len(call.rewritten) :
              /\ call.rewritten[i].index = i
              /\ call.rewritten[i].start = call.file[i].start
              /\ call.rewritten[i].end = call.file[i].end

C17_Witness ==
    /\ call.fn = "transcribe_audio"
    /\ call.parsed
    /\ Len(call.file) = 2
    /\ call.file[1].text = ""
    /\ call.file[2].text = "7"
    /\ call.file[1].start # call.file[2].start

\* ------------------------------------------------------- vertical reframe
\* Frame sizes of a source video in pixels; 0 stands for a width or height
\* that ffprobe did not report (None).
FrameSizes == {1, 2, 9, 16, 608, 1080, 1920, 2400}

Filter(name, w, h, x, y) == [name |-> name, w |-> w, h |-> h, x |-> x, y |-> y]

\* The vertical_format branch of process_video_with_subtitles: the filters it
\* puts in front of the subtitle and watermark filters.
vertical_filters(width, height) ==
    IF width # 0 /\ height # 0
    THEN (IF width * 16 > height * 9
          THEN LET new_width == (height * 9) \div 16
                   crop_x == (width - new_width) \div 2
               IN  <<Filter("crop", new_width, height, crop_x, 0)>>
          ELSE IF width * 16 < height * 9
          THEN LET new_height == (width * 16) \div 9
                   crop_y == (height - new_height) \div 2
               IN  <<Filter("crop", width, new_height, 0, crop_y)>>
          ELSE <<>>)
         \o <<Filter("scale_decrease", 1080, 1920, 0, 0),
              Filter("pad_centered", 1080, 1920, 0, 0)>>
    ELSE <<Filter("crop_ih_9_16", 0, 0, 0, 0),
           Filter("scale", 1080, 1920, 0, 0)>>

\* What ffmpeg makes of one filter on a frame of the given size; a crop or a
\* pad that does not fit ends the run with an error.
NoFrame == [w |-> 0, h |-> 0]

ApplyFilter(frame, f) ==
    IF frame = NoFrame THEN NoFrame
    ELSE IF f.name = "crop"
    THEN (IF f.w <= 0 \/ f.h <= 0 \/ f.x + f.w > frame.w \/ f.y + f.h > frame.h
          THEN NoFrame ELSE [w |-> f.w, h |-> f.h])
    ELSE IF f.name = "crop_ih_9_16"
    THEN LET w == (frame.h * 9) \div 16
         IN  IF w <= 0 \/ w > frame.w THEN NoFrame ELSE [w |-> w, h |-> frame.h]
    ELSE IF f.name = "scale_decrease"
    THEN (IF frame.w * f.h > frame.h * f.w
          THEN [w |-> f.w, h |-> (frame.h * f.w) \div frame.w]
          ELSE [w |-> (frame.w * f.h) \div frame.h, h |-> f.h])
    ELSE IF f.name = "pad_centered"
    THEN (IF frame.w > f.w \/ frame.h > f.h \/ frame.w <= 0 \/ frame.h <= 0
          THEN NoFrame ELSE [w |-> f.w, h |-> f.h])
    ELSE [w |-> f.w, h |-> f.h]

RECURSIVE ApplyFilters(_, _)
ApplyFilters(frame, filters) ==
    IF filters = <<>> THEN frame
    ELSE ApplyFilters(ApplyFilter(frame, Head(filters)), Tail(filters))

ReframeCalls ==
    [fn : {"process_video_with_subtitles"},
     width : FrameSizes, height : FrameSizes, probed : BOOLEAN,
     done : {FALSE}, filters : {<<>>}, canvas : {NoFrame}]

InitReframe ==
    /\ tasks = [t \in TaskIds |-> NoRow]
    /\ created = 0
    /\ redisOptions = [t \in TaskIds |-> NoOptions]
    /\ statusMsg = [t \in TaskIds |-> FALSE]
    /\ queue = <<>>
    /\ deliveries = [t \in TaskIds |-> 0]
    /\ files = [t \in TaskIds |-> {}]
    /\ pc = [w \in Workers |-> "idle"]
    /\ cur = [w \in Workers |-> 0]
    /\ loc = [w \in Workers |-> NoLocals]
    /\ hist = [w \in Workers |-> NoHistory]
    /\ call \in ReframeCalls

\* process_video_with_subtitles with vertical_format=True on a source of
\* call.width x call.height whose size get_video_info did or did not report.
call_vertical_reframe ==
    /\ call.fn = "process_video_with_subtitles"
    /\ ~call.done
    /\ LET filters == IF call.probed THEN vertical_filters(call.width, call.height)
                      ELSE vertical_filters(0, 0)
       IN  call' = [call EXCEPT !.done = TRUE,
                                !.filters = filters,
                                !.canvas = ApplyFilters([w |-> call.width, h |-> call.height],
                                                        filters)]
    /\ UNCHANGED <<tasks, created, redisOptions, statusMsg, queue, deliveries, files, pc, cur, loc, hist>>

NextReframe == call_vertical_reframe

SpecReframe == InitReframe /\ [][NextReframe]_vars

CropsOf(filters) == {i \in 1..Len(filters) : filters[i].name = "crop"}

\* C18: for every source width and height the filter chain gives an output
\* canvas of exactly 1080x1920; when the size is known the crop window is
\* centered, lies inside the source frame and is not empty, and the chain
\* ends with an aspect-preserving scale and a centered pad to 1080x1920.
C18_VerticalReframe ==
    call.fn = "process_video_with_subtitles" /\ call.done =>
        /\ call.canvas = [w |-> 1080, h |-> 1920]
        /\ call.probed =>
              /\ \A i \in CropsOf(call.filters) :
                    LET f == call.filters[i]
                    IN  /\ f.x = (call.width - f.w) \div 2
                        /\ f.y = (call.height - f.h) \div 2
                        /\ f.x >= 0 /\ f.x + f.w <= call.width
                        /\ f.y >= 0 /\ f.y + f.h <= call.height
                        /\ f.w > 0 /\ f.h > 0
              /\ Len(call.filters) >= 2
              /\ call.filters[Len(call.filters) - 1] = Filter("scale_decrease", 1080, 1920, 0, 0)
              /\ call.filters[Len(call.filters)] = Filter("pad_centered", 1080, 1920, 0, 0)

\* ------------------------------------------------ options across runs
\* The options enqueue_video_task attaches to a Task.
AttachedOptions(t) == CHOOSE o \in OptionBundles : TRUE

\* C19: every run of process_video_task for a Task, a second run after a
\* redelivery included, uses the style, position and voice options that
\* were attached to the Task when it was enqueued.
C19_RunsUseAttachedOptions ==
    \A w \in Workers :
        InRun(w) /\ pc[w] # "start" =>
            loc[w].subtitle_options = AttachedOptions(cur[w])

C21_ErrorMessageOnlyWhenFailed ==
    \A t \in TaskIds :
        t <= created /\ tasks[t].error_message # None => tasks[t].status = FAILED

\* ------------------------------------------------------ validate_video_url
\* The pipeline with nothing created, queued or running.
PipelineAtRest ==
    /\ tasks = [t \in TaskIds |-> NoRow]
    /\ created = 0
    /\ redisOptions = [t \in TaskIds |-> NoOptions]
    /\ statusMsg = [t \in TaskIds |-> FALSE]
    /\ queue = <<>>
    /\ deliveries = [t \in TaskIds |-> 0]
    /\ files = [t \in TaskIds |-> {}]
    /\ pc = [w \in Workers |-> "idle"]
    /\ cur = [w \in Workers |-> 0]
    /\ loc = [w \in Workers |-> NoLocals]
    /\ hist = [w \in Workers |-> NoHistory]

\* A URL, as far as the patterns can tell URLs apart: for each host name
\* whether the text contains it as written in the pattern ("exact"), only
\* in another letter case ("other_case"), or not at all.
HostNames == {"youtube.com", "youtu.be", "tiktok.com", "instagram.com"}

Urls == [HostNames -> {"absent", "exact", "other_case"}]

\* re.search(pattern, url) for a pattern that is an alternation of host names.
Search(pattern, url) == \E h \in pattern : url[h] = "exact"

youtube_pattern == {"youtube.com", "youtu.be"}

tiktok_pattern == {"tiktok.com"}

instagram_pattern == {"instagram.com"}

validate_video_url_tiktok_first(url) ==
    IF Search(tiktok_pattern, url) THEN <<TRUE, "tiktok">>
    ELSE IF Search(youtube_pattern, url) THEN <<TRUE, "youtube">>
    ELSE IF Search(instagram_pattern, url) THEN <<TRUE, "instagram">>
    ELSE <<FALSE, None>>

validate_video_url(url) ==
    IF Search(youtube_pattern, url) THEN <<TRUE, "youtube">>
    ELSE IF Search(tiktok_pattern, url) THEN <<TRUE, "tiktok">>
    ELSE IF Search(instagram_pattern, url) THEN <<TRUE, "instagram">>
    ELSE <<FALSE, None>>

ValidateCalls == [fn : {"validate_video_url"}, url : Urls, done : {FALSE}, result : {<<FALSE, None>>}]

InitValidate == PipelineAtRest /\ call \in ValidateCalls

call_validate_video_url ==
    /\ call.fn = "validate_video_url"
    /\ ~call.done
    /\ call' = [call EXCEPT !.done = TRUE, !.result = validate_video_url(call.url)]
    /\ UNCHANGED <<tasks, created, redisOptions, statusMsg, queue, deliveries, files, pc, cur, loc, hist>>

NextValidate == call_validate_video_url

SpecValidate == InitValidate /\ [][NextValidate]_vars

\* C22: validate_video_url returns (True, source) with source youtube, tiktok
\* or instagram exactly when the URL matches that platform's pattern, tested
\* in that order with the first match winning, and (False, None) for every
\* other URL; the flag is True if and only if the source is not None.
C22_ValidateFirstMatch ==
    call.fn = "validate_video_url" /\ call.done =>
        LET yt == call.url["youtube.com"] = "exact" \/ call.url["youtu.be"] = "exact"
            tt == call.url["tiktok.com"] = "exact"
            ig == call.url["instagram.com"] = "exact"
        IN  /\ (call.result = <<TRUE, "youtube">>) <=> yt
            /\ (call.result = <<TRUE, "tiktok">>) <=> (~yt /\ tt)
            /\ (call.result = <<TRUE, "instagram">>) <=> (~yt /\ ~tt /\ ig)
            /\ (call.result = <<FALSE, None>>) <=> (~yt /\ ~tt /\ ~ig)
            /\ call.result[1] <=> (call.result[2] # None)

C22_Witness ==
    /\ call.fn = "validate_video_url"
    /\ call.done
    /\ call.url["youtu.be"] = "exact"
    /\ call.url["youtube.com"] = "other_case"
    /\ call.url["tiktok.com"] = "exact"
    /\ call.result = <<TRUE, "youtube">>

\* ------------------------------------------------- download_from_url
\* The one message that can carry yt-dlp's "Unsupported URL" text: the
\* error of extract_info passed on as it is.
SaysUnsupported(msg) == msg = MsgFailedAccess

\* C23: when the fetch stage is given a URL that matches no supported
\* platform pattern, the fetch fails with a message saying that the link is
\* unsupported and writes no artifact into the scratch directory.
C23_UnsupportedUrlFailsFetch ==
    call.fn = "download_video" /\ call.done /\ call.input_type = None =>
        /\ call.result.raised
        /\ SaysUnsupported(call.result.msg)
        /\ ~call.result.exists

\* ----------------------------------------------- the synchronized mix
\* Time codes of caption entries, in milliseconds.
SegmentTimes == {0, 5, 1001, 2000, 61003}

\* srt_time_to_seconds gives a float, h*3600 + m*60 + s + ms/1000, and
\* int(start_time * 1000) truncates the float product: for these time codes
\* the product falls just below the whole number of milliseconds (for
\* 00:00:01,001 it is 1000.9999999999999).
ProductFallsShort == {1001, 61003}

delay_ms(start_time) == IF start_time \in ProductFallsShort THEN start_time - 1 ELSE start_time

\* The segment_files list handed to the mix: one record per synthesized
\* segment with the times of its caption entry.
SegmentFiles ==
    {seg \in [start_time : SegmentTimes, end_time : SegmentTimes] :
        seg.start_time <= seg.end_time}

SegmentFileLists ==
    UNION {[1..n -> SegmentFiles] : n \in 0..MaxSegments}

Max(a, b) == IF a >= b THEN a ELSE b

\* The filter graph _create_synchronized_audio_track builds: the silent base
\* track, one trimmed and delayed input per segment file, and amix.
synchronized_filter(segment_files) ==
    [silence |-> CHOOSE d \in {seg.end_time : seg \in {segment_files[i] : i \in DOMAIN segment_files}} :
                    \A i \in DOMAIN segment_files : segment_files[i].end_time <= d,
     segs |-> [i \in DOMAIN segment_files |->
                  [atrim |-> Max(segment_files[i].end_time - segment_files[i].start_time, 10),
                   adelay |-> delay_ms(segment_files[i].start_time)]],
     amix_inputs |-> Len(segment_files) + 1]

NoFilterGraph == [silence |-> 0, segs |-> <<>>, amix_inputs |-> 0]

MixCalls ==
    [fn : {"_create_synchronized_audio_track"}, segment_files : SegmentFileLists,
     done : {FALSE}, graph : {NoFilterGraph}]

InitMix == PipelineAtRest /\ call \in MixCalls

call_create_synchronized_audio_track ==
    /\ call.fn = "_create_synchronized_audio_track"
    /\ ~call.done
    /\ call' = [call EXCEPT !.done = TRUE,
                            !.graph = IF call.segment_files = <<>> THEN NoFilterGraph
                                      ELSE synchronized_filter(call.segment_files)]
    /\ UNCHANGED <<tasks, created, redisOptions, statusMsg, queue, deliveries, files, pc, cur, loc, hist>>

NextMix == call_create_synchronized_audio_track

SpecMix == InitMix /\ [][NextMix]_vars

\* C24: in synchronized mode every synthesized segment is placed in the mix
\* at a delay equal to its declared start time in whole milliseconds and is
\* trimmed to at most its segment's duration; the mix has one input per
\* segment plus one silent base track as long as the latest segment end.
C24_SegmentsPlacedAtStart ==
    call.fn = "_create_synchronized_audio_track" /\ call.done /\ call.segment_files # <<>> =>
        LET segs == call.segment_files
        IN  /\ Len(call.graph.segs) = Len(segs)
            /\ \A i \in 1..Len(segs) :
                  /\ call.graph.segs[i].adelay = segs[i].start_time
                  /\ call.graph.segs[i].atrim <= segs[i].end_time - segs[i].start_time
            /\ call.graph.amix_inputs = Len(segs) + 1
            /\ \A i \in 1..Len(segs) : segs[i].end_time <= call.graph.silence
            /\ \E i \in 1..Len(segs) : segs[i].end_time = call.graph.silence

\* ------------------------------------------- the translated caption file
\* C25: for a Task with translate=true and target language es whose source
\* language is en, the caption file subtitles_es.srt exists in the scratch
\* directory after the run, also when no translation path to es was
\* available, and the Task ends completed.
C25_TranslatedFileExists ==
    \A w \in Workers :
        /\ InRun(w)
        /\ pc[w] = "done"
        /\ hist[w].raised = None
        /\ Ran(w, "translate")
        /\ tasks[cur[w]].target_language = "es"
        /\ loc[w].detected_language = "en"
        => /\ tasks[cur[w]].status = COMPLETED
           /\ TranslatedFile("es") \in files[cur[w]]

\* ------------------------------------------------ normalized language tags
\* C26: translate_subtitles normalizes the source tag as well as the target
\* tag to the internal code set before comparing them and before any model
\* or package lookup, whether the source tag was supplied or detected.
C26_BothTagsNormalized ==
    call.fn = "translate_subtitles" /\ call.done =>
        /\ \A i \in 1..Len(call.result.attempts) :
              /\ call.result.attempts[i].from \in {NormalizedSource, PIVOT_LANGUAGE}
              /\ call.result.attempts[i].to \in {WorkingTarget, PIVOT_LANGUAGE}
              /\ call.result.attempts[i].from \in LANGUAGE_ALIASES
              /\ call.result.attempts[i].to \in LANGUAGE_ALIASES
        /\ call.result.why = "same" <=>
              (call.env.readable /\ call.env.entries /\ NormalizedSource = WorkingTarget)

\* ------------------------------------------------ the errors of yt-dlp
\* A yt-dlp error of a URL download whose text has the given marker and
\* none of the markers tested before it.
UrlError(at) ==
    /\ call.fn = "download_video"
    /\ call.done
    /\ call.input_type # "file"
    /\ call.env.primary = "error"
    /\ call.env.at = at

IsTimeoutMessage(msg) ==
    \E source \in DownloadKinds : msg \in {MsgTimeout(source), MsgDownloadTimeout(source)}

\* C27: when yt-dlp fails with an error containing a timeout marker,
\* download_from_url runs the download a second time, and a timeout error
\* is surfaced only if that second run failed too.
C27_TimeoutRetriedOnce ==
    (UrlError("extract") \/ UrlError("download")) /\ call.env.markers = {"timeout"} =>
        /\ call.result.tries = 2
        /\ call.result.raised => IsTimeoutMessage(call.result.msg)

\* C28: for a source without alternate retrieval path, an extraction error
\* whose text contains a generic marker ('blocked', 'unable to download',
\* 'unable to extract'), no timeout marker and no wording of restricted
\* content is surfaced as the 'not accessible' error.
C28_GenericErrorNotAccessible ==
    /\ UrlError("extract")
    /\ call.input_type # "instagram"
    /\ "blocked" \in call.env.markers
    /\ "timeout" \notin call.env.markers
    /\ "restricted" \notin call.env.markers
    => /\ call.result.raised
       /\ call.result.msg = MsgNotAccessible

\* C29: download_from_instagram_instaloader is invoked only when the source
\* is instagram and the companion library is available; for every other
\* source and every error of the primary download no alternate retrieval
\* is attempted.
C29_FallbackOnlyForInstagram ==
    call.fn = "download_video" /\ call.done /\ call.result.fallbacks > 0 =>
        call.input_type = "instagram" /\ call.env.available

\* Both handlers turned to instaloader, and its second call succeeded.
C29_Witness ==
    /\ UrlError("extract")
    /\ call.input_type = "instagram"
    /\ call.result.fallbacks = 2
    /\ ~call.result.raised

\* ------------------------------------- the binary transfer of instaloader
\* settings.INSTAGRAM_RETRIES
INSTAGRAM_RETRIES == 5

\* What one attempt of the transfer can end in: a non-empty output file, an
\* HTTP or network error, or a file that is missing or empty afterwards.
TransferOutcomes == {"ok", "http_error", "missing", "empty"}

\* The loop "for attempt in range(max_retries)" at its start: attempt is the
\* loop variable, outcomes what the attempts so far ended in, slept the
\* seconds spent in time.sleep.
TransferCalls ==
    [fn : {"download_from_instagram_instaloader"}, at : {"attempt"}, attempt : {0},
     outcomes : {<<>>}, slept : {0}]

InitTransfer == PipelineAtRest /\ call \in TransferCalls

\* The loop body with a wait after every failed attempt, the last included.
transfer_attempt_always_sleeps ==
    /\ call.fn = "download_from_instagram_instaloader"
    /\ call.at = "attempt"
    /\ call.attempt < INSTAGRAM_RETRIES
    /\ \E outcome \in TransferOutcomes :
          call' = [call EXCEPT !.outcomes = Append(@, outcome),
                               !.at = IF outcome = "ok" THEN "returned" ELSE "sleep"]
    /\ UNCHANGED <<tasks, created, redisOptions, statusMsg, queue, deliveries, files, pc, cur, loc, hist>>

\* One pass of the loop body up to its return or its except clause: the
\* request, the write, the check of the file, "if attempt < max_retries - 1".
transfer_attempt ==
    /\ call.fn = "download_from_instagram_instaloader"
    /\ call.at = "attempt"
    /\ call.attempt < INSTAGRAM_RETRIES
    /\ \E outcome \in TransferOutcomes :
          call' = [call EXCEPT !.outcomes = Append(@, outcome),
                               !.at = IF outcome = "ok" THEN "returned"
                                      ELSE IF call.attempt < INSTAGRAM_RETRIES - 1 THEN "sleep"
                                      ELSE "attempt",
                               !.attempt = IF outcome # "ok" /\ call.attempt >= INSTAGRAM_RETRIES - 1
                                           THEN @ + 1 ELSE @]
    /\ UNCHANGED <<tasks, created, redisOptions, statusMsg, queue, deliveries, files, pc, cur, loc, hist>>

\* time.sleep(2), then the next pass.
transfer_sleep ==
    /\ call.fn = "download_from_instagram_instaloader"
    /\ call.at = "sleep"
    /\ call' = [call EXCEPT !.slept = @ + 2, !.attempt = @ + 1, !.at = "attempt"]
    /\ UNCHANGED <<tasks, created, redisOptions, statusMsg, queue, deliveries, files, pc, cur, loc, hist>>

\* The loop is over: raise "Failed to download video after N attempts".
transfer_exhausted ==
    /\ call.fn = "download_from_instagram_instaloader"
    /\ call.at = "attempt"
    /\ call.attempt >= INSTAGRAM_RETRIES
    /\ call' = [call EXCEPT !.at = "raised"]
    /\ UNCHANGED <<tasks, created, redisOptions, statusMsg, queue, deliveries, files, pc, cur, loc, hist>>

NextTransfer == transfer_attempt \/ transfer_sleep \/ transfer_exhausted

SpecTransfer == InitTransfer /\ [][NextTransfer]_vars

Failed(outcomes, n) == \A i \in 1..n : outcomes[i] # "ok"

\* C30: the binary transfer is attempted at most INSTAGRAM_RETRIES times with
\* a wait of 2 seconds between attempts and none after the last; it returns
\* on the first attempt that yields a non-empty file and raises once the
\* last attempt has failed, so the loop comes to an end.
C30_TransferBounded ==
    call.fn = "download_from_instagram_instaloader" =>
        LET n == Len(call.outcomes)
        IN  /\ n <= INSTAGRAM_RETRIES
            /\ call.at = "returned" =>
                  /\ call.outcomes[n] = "ok"
                  /\ Failed(call.outcomes, n - 1)
                  /\ call.slept = 2 * (n - 1)
            /\ call.at = "raised" =>
                  /\ n = INSTAGRAM_RETRIES
                  /\ Failed(call.outcomes, n)
                  /\ call.slept = 2 * (n - 1)
            /\ call.at = "sleep" => n < INSTAGRAM_RETRIES /\ call.slept = 2 * (n - 1)
            /\ call.at = "attempt" =>
                  /\ Failed(call.outcomes, n)
                  /\ call.slept = 2 * n \/ (n = INSTAGRAM_RETRIES /\ call.slept = 2 * (n - 1))

C30_Witness ==
    /\ call.fn = "download_from_instagram_instaloader"
    /\ call.at = "raised"
    /\ call.outcomes[1] = "http_error"
    /\ call.outcomes[INSTAGRAM_RETRIES] = "empty"

\* ------------------------------------- the writing loop, segment by segment
\* A start or end that the backend did not populate (None).
NoInstant == [millis |-> 0 - 1, sub |-> 0]

\* The words of a segment: start and end may be missing, the text may be
\* blank.
WhisperWords ==
    [start : {NoInstant, [millis |-> 1000, sub |-> 0]},
     end : {NoInstant, [millis |-> 2000, sub |-> 0]},
     word : {"hi", " "}]

WordLists ==
    {<<>>} \cup {<<a>> : a \in WhisperWords} \cup {<<a, b>> : a, b \in WhisperWords}

\* A segment with its own times and text; words = <<>> stands for a segment
\* without word timing (None or an empty list).
WhisperSegments ==
    [start : {[millis |-> 0, sub |-> 0]}, end : {[millis |-> 61001, sub |-> 0]},
     text : {"hi", " "}, words : WordLists]

SegmentLists ==
    {<<a>> : a \in WhisperSegments} \cup
    (IF MaxSegments >= 2 THEN {<<a, b>> : a, b \in WhisperSegments} ELSE {}) \cup
    (IF MaxSegments >= 3
     THEN {<<a, b, c>> : a, b, c \in {x \in WhisperSegments : Len(x.words) = 1 /\ x.text = "hi"}}
     ELSE {})

\* str.strip() of the texts above.
Strip(text) == IF text = " " THEN "" ELSE text

\* if w.start is None or w.end is None: continue; if not text: continue
WordWritten(w) == w.start # NoInstant /\ w.end # NoInstant /\ Strip(w.word) # ""

\* The entries one segment adds to the file, before numbering: its words
\* that pass the two checks, or the segment itself when it has no words.
segment_entries(segment, k) ==
    IF segment.words # <<>>
    THEN LET kept == SelectSeq(segment.words, WordWritten)
         IN  [i \in 1..Len(kept) |->
                 [start |-> format_timestamp(kept[i].start),
                  end |-> format_timestamp(kept[i].end),
                  text |-> Strip(kept[i].word), segment |-> k, level |-> "word"]]
    ELSE <<[start |-> format_timestamp(segment.start),
            end |-> format_timestamp(segment.end),
            text |-> Strip(segment.text), segment |-> k, level |-> "segment"]>>

RECURSIVE all_entries(_, _)
all_entries(segments, k) ==
    IF k > Len(segments) THEN <<>>
    ELSE segment_entries(segments[k], k) \o all_entries(segments, k + 1)

\* index = 1; for segment in segments: ... f.write(f"{index}\n") ...; index += 1
write_segments(segments) ==
    LET entries == all_entries(segments, 1)
    IN  [i \in 1..Len(entries) |->
            [index |-> i, start |-> entries[i].start, end |-> entries[i].end,
             text |-> entries[i].text, segment |-> entries[i].segment,
             level |-> entries[i].level]]

SegmentCalls ==
    [fn : {"write_segments"}, segments : SegmentLists, done : {FALSE}, file : {<<>>}]

InitSegments ==
    /\ PipelineAtRest
    /\ call \in SegmentCalls

\* transcribe_audio writes subtitles.srt from Whisper's segments and words.
call_write_segments ==
    /\ call.fn = "write_segments"
    /\ ~call.done
    /\ call' = [call EXCEPT !.done = TRUE, !.file = write_segments(call.segments)]
    /\ UNCHANGED <<tasks, created, redisOptions, statusMsg, queue, deliveries, files, pc, cur, loc, hist>>

NextSegments == call_write_segments

SpecSegments == InitSegments /\ [][NextSegments]_vars

\* The entries of the written file that come from segment k.
EntriesOf(k) == {i \in 1..Len(call.file) : call.file[i].segment = k}

\* C32: every recognized segment with non-empty text contributes at least
\* one entry to the caption file: word-level entries when the segment has
\* words, otherwise one entry with the segment's own start and end time; the
\* entries are numbered 1..N consecutively even when words are skipped.
C32_EverySegmentContributes ==
    call.fn = "write_segments" /\ call.done =>
        /\ \A k \in 1..Len(call.segments) :
              Strip(call.segments[k].text) # "" =>
                  /\ EntriesOf(k) # {}
                  /\ call.segments[k].words # <<>> =>
                        \A i \in EntriesOf(k) : call.file[i].level = "word"
                  /\ call.segments[k].words = <<>> =>
                        \A i \in EntriesOf(k) :
                            /\ call.file[i].start = format_timestamp(call.segments[k].start)
                            /\ call.file[i].end = format_timestamp(call.segments[k].end)
        /\ \A i \in 1..Len(call.file) : call.file[i].index = i

\* ------------------------------------------- the model caches of a process
\* Calls of the two loaders that one worker process is followed for.
MaxModelCalls == 4

CoquiModels == {"tts_models/en/ljspeech/tacotron2-DDC", "tts_models/en/vctk/vits"}

AllModels == {"whisper"} \cup CoquiModels

\* WhisperModel(...) and TTS(...) return a model or raise.
LoadAnswers == {"ok", "error"}

\* The module globals _whisper_model and _tts_models of one process, with
\* the constructions that succeeded and failed so far and the last call.
ModelCalls ==
    [fn : {"models"}, _whisper_model : {None}, _tts_models : {{}},
     constructed : {[n \in AllModels |-> 0]}, failed : {[n \in AllModels |-> 0]},
     calls : {0}, name : {None}, last : {None}]

InitModels ==
    /\ PipelineAtRest
    /\ call \in ModelCalls

\* get_whisper_model: if _whisper_model is None: _whisper_model = WhisperModel(...)
get_whisper_model ==
    /\ call.fn = "models"
    /\ call.calls < MaxModelCalls
    /\ \E answer \in LoadAnswers :
          call' =
              IF call._whisper_model # None
              THEN [call EXCEPT !.calls = @ + 1, !.name = "whisper", !.last = "cached"]
              ELSE IF answer = "ok"
              THEN [call EXCEPT !.calls = @ + 1, !.name = "whisper", !.last = "loaded",
                                !._whisper_model = "whisper",
                                !.constructed["whisper"] = @ + 1]
              ELSE [call EXCEPT !.calls = @ + 1, !.name = "whisper", !.last = "raised",
                                !.failed["whisper"] = @ + 1]
    /\ UNCHANGED <<tasks, created, redisOptions, statusMsg, queue, deliveries, files, pc, cur, loc, hist>>

\* _get_coqui_model without the look into _tts_models.
_get_coqui_model_uncached(model_name) ==
    /\ call.fn = "models"
    /\ call.calls < MaxModelCalls
    /\ \E answer \in LoadAnswers :
          call' =
              IF answer = "ok"
              THEN [call EXCEPT !.calls = @ + 1, !.name = model_name, !.last = "loaded",
                                !._tts_models = @ \cup {model_name},
                                !.constructed[model_name] = @ + 1]
              ELSE [call EXCEPT !.calls = @ + 1, !.name = model_name, !.last = "raised",
                                !.failed[model_name] = @ + 1]
    /\ UNCHANGED <<tasks, created, redisOptions, statusMsg, queue, deliveries, files, pc, cur, loc, hist>>

\* _get_coqui_model: if model_name in _tts_models: return it; else
\* model = TTS(...); _tts_models[model_name] = model; a failure of TTS(...)
\* is raised as TTSModelLoadError before the assignment.
_get_coqui_model(model_name) ==
    /\ call.fn = "models"
    /\ call.calls < MaxModelCalls
    /\ \E answer \in LoadAnswers :
          call' =
              IF model_name \in call._tts_models
              THEN [call EXCEPT !.calls = @ + 1, !.name = model_name, !.last = "cached"]
              ELSE IF answer = "ok"
              THEN [call EXCEPT !.calls = @ + 1, !.name = model_name, !.last = "loaded",
                                !._tts_models = @ \cup {model_name},
                                !.constructed[model_name] = @ + 1]
              ELSE [call EXCEPT !.calls = @ + 1, !.name = model_name, !.last = "raised",
                                !.failed[model_name] = @ + 1]
    /\ UNCHANGED <<tasks, created, redisOptions, statusMsg, queue, deliveries, files, pc, cur, loc, hist>>

NextModels ==
    \/ get_whisper_model
    \/ \E model_name \in CoquiModels : _get_coqui_model(model_name)

SpecModels == InitModels /\ [][NextModels]_vars

\* The model has a cache entry in this process.
Cached(c, n) == IF n = "whisper" THEN c._whisper_model # None ELSE n \in c._tts_models

\* Every model was constructed once if it is cached and never otherwise.
ConstructedOnce ==
    call.fn = "models" =>
        \A n \in AllModels : call.constructed[n] = IF Cached(call, n) THEN 1 ELSE 0

\* A cached model stays cached and is not constructed again; a call for a
\* model without cache entry tries to load it, and a load that fails leaves
\* no cache entry.
CacheStep ==
    call.fn = "models" =>
        /\ \A n \in AllModels :
              Cached(call, n) =>
                  /\ Cached(call', n)
                  /\ call'.constructed[n] = call.constructed[n]
        /\ ~Cached(call, call'.name) => call'.last \in {"loaded", "raised"}
        /\ call'.last = "raised" => ~Cached(call', call'.name)

\* C33: within one worker process the speech-recognition model is
\* constructed at most once and each synthesis model at most once per model
\* name, whatever the number of calls; a cached model is never evicted or
\* replaced, and a load that fails leaves no cache entry, so that the next
\* call tries to load again.
C33_ModelsConstructedOnce == []ConstructedOnce /\ [][CacheStep]_vars

\* A synthesis model failed to load, was loaded by a later call and then
\* served from the cache.
C33_Witness ==
    /\ call.fn = "models"
    /\ call.name \in CoquiModels
    /\ call.failed[call.name] >= 1
    /\ call.constructed[call.name] = 1
    /\ call.last = "cached"

\* ----------------------------------------- the alternate path, call by call
\* C34: within one call of download_from_url the alternate retrieval path
\* (download_from_instagram_instaloader) is attempted at most once, whichever
\* error the primary download raised and whichever handler caught it.
C34_FallbackAtMostOnce ==
    call.fn = "download_video" /\ call.done => call.result.fallbacks <= 1

\* --------------------------------------------- runs that are cut short
\* The work-horse process of a run dies (SIGKILL, out of memory, the host
\* going down): nothing of process_video_task runs any more, neither the
\* except clause nor finally.
Kill(w) ==
    /\ pc[w] \notin {"idle", "killed"}
    /\ pc' = [pc EXCEPT ![w] = "killed"]
    /\ UNCHANGED <<tasks, created, redisOptions, statusMsg, queue, deliveries, files, cur, loc, hist, call>>

\* update_task_status_sync(FAILED, ...) in the except clause raises (the
\* database is away): the exception leaves process_video_task through
\* finally, and neither the row nor the user hears of the failure (186-201).
HandlerWriteFails(w) ==
    /\ pc[w] = "handler"
    /\ pc' = [pc EXCEPT ![w] = "done"]
    /\ hist' = [hist EXCEPT ![w].returned = "write_failed"]
    /\ UNCHANGED <<tasks, created, redisOptions, statusMsg, queue, deliveries, files, cur, loc, call>>

NextFaults ==
    \/ Next
    \/ \E w \in Workers : Kill(w)
    \/ \E w \in Workers : HandlerWriteFails(w)

SpecFaults == Init /\ [][NextFaults]_vars

\* The run of worker w for an existing Task is over: finally is reached.
RunEnded(w) == pc[w] = "done" /\ cur[w] \in TaskIds /\ cur[w] <= created

\* C35: every run of process_video_task for an existing Task that is not
\* killed ends with the Task's status persisted as completed or failed; the
\* Task is left in processing by a run only if the run was killed or its
\* final status write failed.
C35_RunEndsTerminal ==
    \A w \in Workers :
        /\ (RunEnded(w) /\ hist[w].returned # "write_failed") =>
               tasks[cur[w]].status \in {COMPLETED, FAILED}
        /\ (cur[w] \in TaskIds /\ cur[w] <= created /\ pc[w] \in {"done", "killed"}
            /\ tasks[cur[w]].status = PROCESSING) =>
               pc[w] = "killed" \/ hist[w].returned = "write_failed"

\* A run whose status updates were lost and whose transcription raised
\* ended with the Task failed.
C35_Witness ==
    /\ RunEnded("w1")
    /\ hist["w1"].raised = "transcribe"
    /\ hist["w1"].lost_updates
    /\ hist["w1"].notified = 1
    /\ tasks[cur["w1"]].status = FAILED

\* --------------------------------- enqueue_video_task, statement by statement
\* The calls of enqueue_video_task after the Task's data were put together,
\* in the order of the code: create_task, redis_conn.setex, queue.enqueue.
EnqueueSteps_enqueue_first == <<"create_task", "enqueue", "setex">>

EnqueueSteps == <<"create_task", "setex", "enqueue">>

\* extra_options: the style, position and voice chosen in the chat.
ExtraOptions ==
    [style : {"sub36o1", "modern_bold"}, position : {"bottom", "top", "middle"},
     voice : {"female", "male"}]

\* One call of enqueue_video_task with its extra options, the Redis key
\* task:{id}:options, the job on the queue, and the worker that takes it.
EnqueueCalls ==
    [fn : {"enqueue_video_task"},
     extra_options : ExtraOptions,
     step : {1},                        \* the next statement of EnqueueSteps
     row : {FALSE},                     \* the Task row exists
     status : {None},                   \* the status of the row
     found : {None},                    \* what get_task_sync gave the worker
     reads : {0},                       \* the worker's reads of the options key
     updates : {0},                     \* the worker's calls of send_status_update
     work_dir : {FALSE},                \* the scratch directory exists
     setex : {None},                    \* how redis_conn.setex ended
     key : {NoOptions},                 \* the value under task:{id}:options
     job : {"none"},                    \* none, queued, taken
     worker : {"idle"},                 \* the worker's next statement
     subtitle_options : {NoOptions}]    \* the worker's subtitle_options

InitEnqueue ==
    /\ PipelineAtRest
    /\ call \in EnqueueCalls

\* task = await create_task(db, user.id, **task_data)
create_task ==
    /\ call.fn = "enqueue_video_task"
    /\ call.step <= Len(EnqueueSteps) /\ EnqueueSteps[call.step] = "create_task"
    /\ call' = [call EXCEPT !.step = @ + 1, !.row = TRUE, !.status = CREATED]
    /\ UNCHANGED <<tasks, created, redisOptions, statusMsg, queue, deliveries, files, pc, cur, loc, hist>>

\* try: redis_conn.setex(f"task:{task.id}:options", ...) / except Exception: pass
setex_options ==
    /\ call.fn = "enqueue_video_task"
    /\ call.step <= Len(EnqueueSteps) /\ EnqueueSteps[call.step] = "setex"
    /\ \E answer \in {"ok", "error"} :
          call' = [call EXCEPT !.step = @ + 1, !.setex = answer,
                               !.key = IF answer = "ok" THEN call.extra_options ELSE @]
    /\ UNCHANGED <<tasks, created, redisOptions, statusMsg, queue, deliveries, files, pc, cur, loc, hist>>

\* queue.enqueue("worker.tasks.process_video_task", task_id=task.id, ...)
queue_enqueue ==
    /\ call.fn = "enqueue_video_task"
    /\ call.step <= Len(EnqueueSteps) /\ EnqueueSteps[call.step] = "enqueue"
    /\ call' = [call EXCEPT !.step = @ + 1, !.job = "queued"]
    /\ UNCHANGED <<tasks, created, redisOptions, statusMsg, queue, deliveries, files, pc, cur, loc, hist>>

\* The row of the Task is gone from the tasks table before the worker looks
\* for it (no statement of the repository deletes a Task; the table is
\* emptied or restored from outside while the job waits in Redis).
lose_row ==
    /\ call.fn = "enqueue_video_task"
    /\ call.row /\ call.worker \in {"idle", "get_task"}
    /\ call' = [call EXCEPT !.row = FALSE, !.status = None]
    /\ UNCHANGED <<tasks, created, redisOptions, statusMsg, queue, deliveries, files, pc, cur, loc, hist>>

\* A worker takes the job from the queue.
worker_dequeue ==
    /\ call.fn = "enqueue_video_task"
    /\ call.job = "queued" /\ call.worker = "idle"
    /\ call' = [call EXCEPT !.job = "taken", !.worker = "get_task"]
    /\ UNCHANGED <<tasks, created, redisOptions, statusMsg, queue, deliveries, files, pc, cur, loc, hist>>

\* get_task_sync without "if not task: return".
worker_get_task_unchecked ==
    /\ call.fn = "enqueue_video_task"
    /\ call.worker = "get_task"
    /\ call' = [call EXCEPT !.found = IF call.row THEN "row" ELSE "no_row", !.worker = "options"]
    /\ UNCHANGED <<tasks, created, redisOptions, statusMsg, queue, deliveries, files, pc, cur, loc, hist>>

\* task = get_task_sync(db, task_id); if not task: log, return (27-32).
worker_get_task ==
    /\ call.fn = "enqueue_video_task"
    /\ call.worker = "get_task"
    /\ call' = [call EXCEPT !.found = IF call.row THEN "row" ELSE "no_row",
                            !.worker = IF call.row THEN "options" ELSE "returned"]
    /\ UNCHANGED <<tasks, created, redisOptions, statusMsg, queue, deliveries, files, pc, cur, loc, hist>>

\* raw_opts = redis_conn.get(...); if raw_opts: subtitle_options.update(...);
\* redis_conn.delete(...); except Exception: warning, defaults (33-46).
worker_load_options ==
    /\ call.fn = "enqueue_video_task"
    /\ call.worker = "options"
    /\ \E answer \in {"ok", "get_error", "delete_error"} :
          LET raw_opts == IF answer = "get_error" THEN NoOptions ELSE call.key
          IN  call' = [call EXCEPT
                          !.worker = "mark",
                          !.reads = @ + 1,
                          !.subtitle_options =
                              IF raw_opts # NoOptions THEN raw_opts ELSE DefaultOptions,
                          !.key = IF raw_opts # NoOptions /\ answer = "ok"
                                  THEN NoOptions ELSE @]
    /\ UNCHANGED <<tasks, created, redisOptions, statusMsg, queue, deliveries, files, pc, cur, loc, hist>>

\* update_task_status_sync(db, task_id, PROCESSING), an UPDATE that changes
\* the row with this id if there is one; work_dir.mkdir(...) (48-53).
worker_mark_processing ==
    /\ call.fn = "enqueue_video_task"
    /\ call.worker = "mark"
    /\ call' = [call EXCEPT !.worker = "status",
                            !.status = IF call.row THEN PROCESSING ELSE @,
                            !.work_dir = TRUE]
    /\ UNCHANGED <<tasks, created, redisOptions, statusMsg, queue, deliveries, files, pc, cur, loc, hist>>

\* The status update of step 1 (55-61); the run goes on with download_video.
worker_first_update ==
    /\ call.fn = "enqueue_video_task"
    /\ call.worker = "status"
    /\ call' = [call EXCEPT !.worker = "download", !.updates = @ + 1]
    /\ UNCHANGED <<tasks, created, redisOptions, statusMsg, queue, deliveries, files, pc, cur, loc, hist>>

NextEnqueue ==
    \/ create_task
    \/ setex_options
    \/ queue_enqueue
    \/ lose_row
    \/ worker_dequeue
    \/ worker_get_task
    \/ worker_load_options
    \/ worker_mark_processing
    \/ worker_first_update

SpecEnqueue == InitEnqueue /\ [][NextEnqueue]_vars

\* C36: enqueue_video_task writes the extra options to Redis before it
\* enqueues the job, so the worker that takes the job never looks for the
\* options key before it was written; if the write fails the job is still
\* enqueued and the worker processes the Task with the default options.
C36_OptionsWrittenBeforeEnqueue ==
    call.fn = "enqueue_video_task" =>
        /\ call.worker # "idle" => call.setex # None
        /\ call.step > Len(EnqueueSteps) => call.job # "none"
        /\ (call.reads > 0 /\ call.setex = "error") =>
               call.subtitle_options = DefaultOptions
        /\ call.reads > 0 =>
               call.subtitle_options \in {call.extra_options, DefaultOptions}

\* The write to Redis failed, the job was taken and the worker went on with
\* the default options although others had been chosen.
C36_Witness ==
    /\ call.fn = "enqueue_video_task"
    /\ call.setex = "error"
    /\ call.extra_options = CustomOptions
    /\ call.worker = "download"
    /\ call.status = PROCESSING
    /\ call.subtitle_options = DefaultOptions

\* ------------------------------------------ updates before the mapping
PrePc == {"pre_download", "pre_transcribe", "pre_translate", "pre_voiceover",
          "pre_composite"}

\* Worker w emits a status update in this step while the Task's
\* status-message mapping is not stored, and the stage starts.
EmitsUnmapped(w) ==
    /\ InRun(w)
    /\ pc[w] \in PrePc
    /\ ~statusMsg[cur[w]]
    /\ pc'[w] \in StagePc

\* The mapping of a Task is stored only for a Task that was enqueued.
MappingAfterEnqueue == \A t \in TaskIds : statusMsg[t] => t <= created

\* The update is dropped: the run goes on to its stage, the Task row, the
\* mapping and the queue are as before, and the run records the loss.
DroppedUpdate ==
    \A w \in Workers :
        /\ pc[w] \in PrePc => pc'[w] # "handler"
        /\ EmitsUnmapped(w) =>
              /\ hist'[w].lost_updates
              /\ tasks' = tasks
              /\ statusMsg' = statusMsg
              /\ queue' = queue

\* C37: the chat layer stores a Task's status-message mapping only after
\* the job has been enqueued, so a worker may emit status updates before
\* the mapping exists; such an update is dropped without error, is not
\* queued for later delivery and does not change the Task's status.
C37_UnmappedUpdateDropped == []MappingAfterEnqueue /\ [][DroppedUpdate]_vars

\* A worker is downloading, its first status update was lost, and the
\* mapping is still not stored.
C37_Witness ==
    \E w \in Workers :
        /\ pc[w] = "download"
        /\ ~statusMsg[cur[w]]
        /\ hist[w].lost_updates
        /\ tasks[cur[w]].status = PROCESSING

\* ------------------------------------------------ Tasks without captions
\* C38: the translate and voiceover stages run only when a caption file
\* exists: for a Task with generate_subtitles = false neither stage runs even
\* if translate or voiceover is true, composition runs without subtitles and
\* voice track, and the Task ends completed with no subtitles_file_path.
C38_NoCaptionsNoTranslateNoVoice ==
    \A w \in Workers :
        InRun(w) =>
            /\ pc[w] \in {"translate", "voiceover"} => loc[w].subtitles_path # None
            /\ ~tasks[cur[w]].generate_subtitles =>
                  /\ ~Ran(w, "transcribe") /\ ~Ran(w, "translate") /\ ~Ran(w, "voiceover")
                  /\ loc[w].subtitles_path = None
                  /\ loc[w].voiceover_path = None
                  /\ pc[w] = "done" /\ hist[w].raised = None =>
                        /\ Ran(w, "composite")
                        /\ tasks[cur[w]].status = COMPLETED
                        /\ tasks[cur[w]].subtitles_file_path = None

\* A Task asking for translation and voiceover but not for captions ran
\* download and composition only and is completed.
C38_Witness ==
    \E w \in Workers :
        /\ pc[w] = "done"
        /\ ~tasks[cur[w]].generate_subtitles
        /\ tasks[cur[w]].translate /\ tasks[cur[w]].voiceover
        /\ hist[w].ran = <<"download", "composite">>
        /\ tasks[cur[w]].status = COMPLETED
        /\ tasks[cur[w]].subtitles_file_path = None

\* ------------------------------------------ the languages of steps 4 and 5
\* The fields of a Task that the two choices read, what Whisper detected
\* (None when transcription did not run and the source is "auto"), and how
\* translate_subtitles returned.
LanguageCalls ==
    [fn : {"languages"},
     task : [translate : BOOLEAN, target_language : {None, "auto", "es"},
             source_language : {None, "auto", "ru"}],
     detected_language : {None, "en", "ja"},
     translated : {"translated", "unavailable", "skipped"},
     done : {FALSE}, voice_lang : {None}, subtitle_lang : {None}]

InitLanguages ==
    /\ PipelineAtRest
    /\ call \in {c \in LanguageCalls : c.translated = "skipped" <=> ~c.task.translate}

\* voice_lang (126-132) and subtitle_lang (147-153) of process_video_task.
call_languages ==
    /\ call.fn = "languages"
    /\ ~call.done
    /\ call' = [call EXCEPT !.done = TRUE,
                            !.voice_lang = VoiceLang(call.task, call.detected_language),
                            !.subtitle_lang = SubtitleLang(call.task, call.detected_language)]
    /\ UNCHANGED <<tasks, created, redisOptions, statusMsg, queue, deliveries, files, pc, cur, loc, hist>>

NextLanguages == call_languages

SpecLanguages == InitLanguages /\ [][NextLanguages]_vars

\* A target language was requested: translate is true and the target is set
\* and is not "auto".
TargetRequested == call.task.translate /\ call.task.target_language \notin {None, "auto"}

\* The source language that is known: the detected one, or else the
\* declared one, or None.
KnownSource ==
    IF call.detected_language # None THEN call.detected_language
    ELSE IF call.task.source_language \notin {None, "auto"} THEN call.task.source_language
    ELSE None

\* C39: the language handed to generate_voiceover and to the subtitle font
\* selection is the requested target language whenever translate is true and
\* the target is not "auto", also when translation degraded and returned the
\* untranslated captions; otherwise it is the detected (or else the
\* declared) source language, with "en" as the voiceover default when none
\* is known.
C39_LanguageOfVoiceAndFont ==
    call.fn = "languages" /\ call.done =>
        IF TargetRequested
        THEN call.voice_lang = call.task.target_language
             /\ call.subtitle_lang = call.task.target_language
        ELSE /\ call.subtitle_lang = KnownSource
             /\ call.voice_lang = IF KnownSource # None THEN KnownSource ELSE "en"

\* Translation was requested into "es" and degraded; Whisper had detected
\* "ja"; both languages are "es".
C39_Witness ==
    /\ call.fn = "languages" /\ call.done
    /\ call.task.translate /\ call.task.target_language = "es"
    /\ call.translated = "unavailable"
    /\ call.detected_language = "ja"
    /\ call.voice_lang = "es" /\ call.subtitle_lang = "es"

\* ------------------------------------------------- a job without its Task
\* C40: if the Task identifier does not exist, process_video_task returns
\* without changing any Task record, without reading or deleting the Task's
\* stored options, without creating a scratch directory, without running
\* any stage and without sending any status update or notification.
C40_MissingTaskReturnsUntouched ==
    (call.fn = "enqueue_video_task" /\ call.found = "no_row") =>
        /\ call.worker = "returned"
        /\ call.status = None
        /\ call.reads = 0
        /\ call.key = IF call.setex = "ok" THEN call.extra_options ELSE NoOptions
        /\ call.subtitle_options = NoOptions
        /\ ~call.work_dir
        /\ call.updates = 0

\* The worker found no row for a job whose options are stored in Redis, and
\* returned with the key still there.
C40_Witness ==
    /\ call.fn = "enqueue_video_task"
    /\ call.found = "no_row"
    /\ call.worker = "returned"
    /\ call.setex = "ok"
    /\ call.key = CustomOptions

====
